---- MODULE Spec2Model ----
(***************************************************************************)
(* Crawl orchestration of the Dice.com job scraper: the module state of    *)
(* routes.ts (jobsScraped, maxJobs, scrapeJobDetails), its three request   *)
(* handlers, and the run driver that seeds the request queue and reports   *)
(* the run statistics.                                                     *)
(*                                                                         *)
(* Strings are sequences of tokens (<<>> is the empty string); a missing   *)
(* property is Undefined.  A handler runs in segments that end at its      *)
(* awaits; the effect of an awaited call (crawler.addRequests,             *)
(* Dataset.pushData) is taken at the call.                                 *)
(***************************************************************************)
EXTENDS Integers, Sequences, FiniteSets, Bags, TLC

VARIABLES
    input,            \* the validated actor input
    phase,            \* position of the main script: "main", "configured",
                      \* "crawling", "done"
    jobsScraped,      \* routes.ts module state
    maxJobs,
    scrapeJobDetails,
    queue,            \* requests waiting in the crawler's request queue
    seenKeys,         \* uniqueKeys the request queue has ever accepted
    running,          \* handler invocations suspended at an await
    handled,          \* uniqueKeys of the requests whose handler has returned
    errors,           \* statistics.errors
    dataset,          \* bag of the records passed to Dataset.pushData
    produced,         \* bag of the Basic records built by the search handlers
    runStatistics,    \* the RUN_STATISTICS value, <<>> until it is written
    last,             \* what the last handler segment did
    call,             \* the last application of a function of utils.ts or of
                      \* extractJobDetails: [fn, arg, result]
    rateLimiter,      \* a RateLimiter of utils.ts: its fields, tokens in
                      \* thousandths of a token
    now,              \* Date.now(), in ms since the RateLimiter was built
    sleeping          \* bag of the acquire calls suspended at `await
                      \* sleep(waitTime)`: the time each timer is due

vars == <<input, phase, jobsScraped, maxJobs, scrapeJobDetails, queue, seenKeys,
          running, handled, errors, dataset, produced, runStatistics, last, call,
          rateLimiter, now, sleeping>>

\* The state of the RateLimiter and of its timers
Limiter == <<rateLimiter, now, sleeping>>

\* No RateLimiter is built: the actor creates none
NoLimiter ==
    /\ rateLimiter = [tokens |-> 0, lastRefill |-> 0, maxTokens |-> 0, refillRate |-> 0]
    /\ now = 0
    /\ sleeping = EmptyBag

----------------------------------------------------------------------------
(* Bounds of the model *)

MaxJobsInput == 1       \* input.maxJobs ranges over 0..MaxJobsInput
MaxScraped == MaxJobsInput + 1   \* jobs the site lists to one run
MaxPageLen == 2         \* jobs (cards) listed on one page
MaxPages == 2           \* totalPages reported by the API; HTML pages with a next control
MaxConcurrency == 2     \* handler invocations in flight
MaxCounted == 101       \* iterations of the job loop in SpecCap

(* Program constants *)

DEFAULT_MAX_JOBS == 100
RETRY_COUNT == 3
PAGE_SIZE == 100

DICE_BASE_URL == "https://www.dice.com"
DICE_API_URL == "https://job-search-api.svc.dhigroupinc.com/v1/dice/jobs/search"

----------------------------------------------------------------------------
(* JavaScript values *)

Undefined == <<"<undefined>">>

Truthy(v) == v # Undefined /\ v # <<>>

\* a || b
Or(a, b) == IF Truthy(a) THEN a ELSE b

\* `${v}` inside a template literal
Str(v) == IF v = Undefined THEN <<"undefined">> ELSE v

Min(a, b) == IF a < b THEN a ELSE b

RECURSIVE SeqToBag(_)
SeqToBag(s) == IF s = <<>> THEN EmptyBag ELSE SetToBag({Head(s)}) (+) SeqToBag(Tail(s))

\* Date.now() and new Date().toISOString(): the instant is one opaque token
DateNow == "<now>"
NowIso == <<"<iso ", DateNow, ">">>

\* s.startsWith('http'), s?.startsWith('http')
StartsWithHttp(s) ==
    /\ s # Undefined
    /\ Len(s) > 0
    /\ s[1] \in {DICE_BASE_URL, DICE_API_URL, "http://", "https://"}

\* Tokens matched in full by [a-f0-9-]+
HexTokens == {"a1", "b2", "c3", "d4"}

RECURSIVE FirstJobDetail(_, _)
FirstJobDetail(url, i) ==
    IF i >= Len(url) THEN 0
    ELSE IF url[i] = "/job-detail/" /\ url[i + 1] \in HexTokens THEN i
    ELSE FirstJobDetail(url, i + 1)

\* url.match(/\/job-detail\/([a-f0-9-]+)/i): the token after the first
\* "/job-detail/" segment, or null
extractJobIdFromUrl(url) ==
    LET i == FirstJobDetail(url, 1)
    IN IF i = 0 THEN Undefined ELSE <<url[i + 1]>>

\* url.includes('/job-detail/')
IncludesJobDetail(url) == \E i \in 1..Len(url) : url[i] = "/job-detail/"

RECURSIVE IndexOfToken(_, _, _)
IndexOfToken(s, tok, i) ==
    IF i > Len(s) THEN 0
    ELSE IF s[i] = tok THEN i
    ELSE IndexOfToken(s, tok, i + 1)

\* new URL(url).searchParams.set(key, value): the value of an existing key is
\* replaced in place, a new key is appended
SetSearchParam(url, key, value) ==
    LET i == IndexOfToken(url, key, 1)
    IN IF i = 0 \/ i = Len(url) THEN url \o <<key, value>>
       ELSE [url EXCEPT ![i + 1] = value]

----------------------------------------------------------------------------
(* Records *)

\* The fields of JobListingBasic / JobListingFull the orchestration reads or
\* writes; description is present on Full records only
JobRecord(id, url) ==
    [id |-> id, url |-> url, scrapedAt |-> Undefined,
     description |-> Undefined, error |-> Undefined]

\* parseJobFromApi: id and url of the mapped record
parseJobFromApi(job) ==
    LET jobUrl == IF StartsWithHttp(job.detailsPageUrl)
                  THEN job.detailsPageUrl
                  ELSE <<DICE_BASE_URL>> \o Str(job.detailsPageUrl)
    IN JobRecord(Or(job.id, Or(job.guid, <<>>)), jobUrl)

\* The body of the jobCards.each callback for the card at `index` (0-based)
CardToJob(card, index) ==
    LET jobUrl == Or(card.href, <<>>)
        fullUrl == IF StartsWithHttp(jobUrl) THEN jobUrl
                   ELSE <<DICE_BASE_URL>> \o jobUrl
        jobId == Or(extractJobIdFromUrl(fullUrl),
                    <<"job-", DateNow, "-", ToString(index)>>)
    IN JobRecord(jobId, fullUrl)

\* { ...job, scrapedAt: new Date().toISOString() }
Stamped(job) == [job EXCEPT !.scrapedAt = NowIso]

\* { ...jobBasic, scrapedAt: ..., error: 'Failed to extract full details' }
FailureRecord(jobBasic) ==
    [jobBasic EXCEPT !.scrapedAt = NowIso,
                     !.error = <<"Failed to extract full details">>]

\* extractJobDetails: jobBasic is <<>> (undefined) or <<record>>
extractJobDetails(doc, jobBasic, url) ==
    LET basicId == IF jobBasic = <<>> THEN Undefined ELSE jobBasic[1].id
    IN [id |-> Or(basicId, Or(extractJobIdFromUrl(url), <<"job-", DateNow>>)),
        url |-> url,
        scrapedAt |-> NowIso,
        description |-> doc.description,
        error |-> Undefined]

----------------------------------------------------------------------------
(* Requests *)

NewRequest(label, url, uniqueKey, page, searchParams, jobBasic) ==
    [label |-> label, url |-> url, uniqueKey |-> uniqueKey, page |-> page,
     searchParams |-> searchParams, jobBasic |-> jobBasic]

\* new Request({ url: job.url, label: 'JOB_DETAIL', userData: { jobBasic: job } });
\* without a uniqueKey the request queue keys the request by its URL
DetailRequest(job) == NewRequest("JOB_DETAIL", job.url, job.url, 0, <<>>, <<job>>)

DetailRequests(jobs) == [i \in 1..Len(jobs) |-> DetailRequest(jobs[i])]

\* { ...searchParams, page: nextPage }
NextPageParams(searchParams, nextPage) == [searchParams EXCEPT !.page = nextPage]

ApiPageUrl(page) == <<DICE_API_URL, "?", "page=", ToString(page)>>

\* The SEARCH_API request for `params.page`
SearchApiRequest(params) ==
    NewRequest("SEARCH_API", ApiPageUrl(params.page),
               <<"search-page-", ToString(params.page)>>, params.page, <<params>>, <<>>)

\* The next-page request of the SEARCH handler
NextSearchRequest(request, nextPage) ==
    LET nextUrl == SetSearchParam(request.url, "page=", ToString(nextPage))
    IN NewRequest("SEARCH", nextUrl, nextUrl, nextPage, <<>>, <<>>)

----------------------------------------------------------------------------
(* Inputs and the site *)

\* The subsequences of `listing` of at most n elements
RECURSIVE SubSeqs(_)
SubSeqs(listing) ==
    IF listing = <<>> THEN {<<>>}
    ELSE LET rest == SubSeqs(Tail(listing))
         IN rest \cup {<<Head(listing)>> \o r : r \in rest}

PagesOf(listing, n) == {p \in SubSeqs(listing) : Len(p) <= n}

StartUrlChoices ==
    {<<>>,
     <<<<DICE_BASE_URL, "/job-detail/", "d4">>>>,
     <<<<DICE_BASE_URL, "/job-detail/", "d4">>, <<DICE_BASE_URL, "/job-detail/", "a1">>>>,
     <<<<DICE_BASE_URL, "/jobs?", "q=", "qa">>>>}

SearchInputs ==
    {[searchQuery |-> <<"engineer">>, location |-> <<>>, easyApply |-> TRUE]}

Inputs ==
    {[maxJobs |-> m, scrapeJobDetails |-> d, startUrls |-> u, search |-> s] :
        m \in 0..MaxJobsInput, d \in BOOLEAN, u \in StartUrlChoices, s \in SearchInputs}

\* Jobs of the search API: with an id and an absolute URL, with a guid only and
\* a relative URL, with neither id, guid nor URL
ApiListing ==
    <<[id |-> <<"a1">>, guid |-> Undefined,
       detailsPageUrl |-> <<DICE_BASE_URL, "/job-detail/", "a1">>],
      [id |-> Undefined, guid |-> <<"b2">>,
       detailsPageUrl |-> <<"/job-detail/", "b2">>],
      [id |-> Undefined, guid |-> Undefined, detailsPageUrl |-> Undefined]>>

\* response.body of the API: kind "nobody" (no body), "nodata" (a body with no
\* data field), "page"; totalPages 0 is a missing meta.totalPages
ApiResponses ==
    {[kind |-> "nobody", data |-> <<>>, totalPages |-> 0]}
    \cup {[kind |-> "nodata", data |-> <<>>, totalPages |-> t] : t \in {0, MaxPages}}
    \cup {[kind |-> "page", data |-> d, totalPages |-> t] :
            d \in PagesOf(ApiListing, MaxPageLen), t \in {0, 1, MaxPages}}

\* Cards of an HTML result page: href of the title link (<<>> when missing)
CardListing ==
    <<[href |-> <<"/job-detail/", "a1">>],
      [href |-> <<DICE_BASE_URL, "/job-detail/", "c3">>],
      [href |-> <<>>]>>

SearchDocs ==
    {[cards |-> c, hasNext |-> n] : c \in PagesOf(CardListing, MaxPageLen), n \in BOOLEAN}

\* A detail page: the text of its description element; throws: the document
\* makes extraction raise
DetailDocs ==
    {[description |-> <<"Build", " ", "things">>, throws |-> FALSE],
     [description |-> <<>>, throws |-> TRUE]}

\* The URLs whose fetches the site may fail: the first API page and one detail page
UnreliableUrls ==
    {<<DICE_API_URL, "?", "page=", "1">>,
     <<DICE_BASE_URL, "/job-detail/", "a1">>}

----------------------------------------------------------------------------
(* routes.ts: module state *)

\* initRouter: the new values of maxJobs, scrapeJobDetails, jobsScraped
initRouterMaxJobs(inp) == IF inp.maxJobs # 0 THEN inp.maxJobs ELSE DEFAULT_MAX_JOBS

\* Faulty variant of shouldContinue: the comparison is inclusive
shouldContinueInclusive(js) == maxJobs = 0 \/ js <= maxJobs

\* shouldContinue() when jobsScraped is js
shouldContinue(js) == maxJobs = 0 \/ js < maxJobs

\* Faulty variant of ApiJobLoop: the cap is consulted when the handler begins
\* only, not in the loop
ApiJobLoopUnchecked(jobs, i, acc, js) ==
    [jobs |-> [k \in 1..Len(jobs) |-> parseJobFromApi(jobs[k])],
     scraped |-> js + Len(jobs)]

\* for (const job of jobs) { if (!shouldContinue()) break; ...push; jobsScraped++ }
RECURSIVE ApiJobLoop(_, _, _, _)
ApiJobLoop(jobs, i, acc, js) ==
    IF i > Len(jobs) \/ ~shouldContinue(js)
    THEN [jobs |-> acc, scraped |-> js]
    ELSE ApiJobLoop(jobs, i + 1, Append(acc, parseJobFromApi(jobs[i])), js + 1)

\* Faulty variant of CardLoop: the counter is advanced for every card of the
\* page, the cards met after the cap included, which yield no record
CardLoopCountsSkipped(cards, i, acc, js) ==
    LET room == IF maxJobs = 0 THEN Len(cards)
                ELSE Min(Len(cards), IF js < maxJobs THEN maxJobs - js ELSE 0)
    IN [jobs |-> [k \in 1..room |-> CardToJob(cards[k], k - 1)],
        scraped |-> js + Len(cards)]

\* jobCards.each((_index, element) => { if (!shouldContinue()) return false; ... })
RECURSIVE CardLoop(_, _, _, _)
CardLoop(cards, i, acc, js) ==
    IF i > Len(cards) \/ ~shouldContinue(js)
    THEN [jobs |-> acc, scraped |-> js]
    ELSE CardLoop(cards, i + 1, Append(acc, CardToJob(cards[i], i - 1)), js + 1)

----------------------------------------------------------------------------
(* The crawler's request queue *)

\* crawler.addRequests(reqs): the requests the queue accepts, a request whose
\* uniqueKey it has seen (before, or earlier in reqs) being dropped
Accepted(reqs, seen) ==
    {reqs[i] : i \in {k \in 1..Len(reqs) :
                        /\ reqs[k].uniqueKey \notin seen
                        /\ \A j \in 1..(k - 1) : reqs[j].uniqueKey # reqs[k].uniqueKey}}

Entries(reqs, seen) == {[req |-> r, retryCount |-> 0] : r \in Accepted(reqs, seen)}

KeysOf(reqs) == {reqs[i].uniqueKey : i \in 1..Len(reqs)}

\* Faulty variant of Reclaimed: a failed request is reclaimed without its
\* retries being counted
ReclaimedUncounted(entry) == {[req |-> entry.req, retryCount |-> entry.retryCount]}

\* A failed attempt: the request is reclaimed for a retry until it has been
\* retried maxRequestRetries times, then failedRequestHandler runs
Reclaimed(entry) ==
    IF entry.retryCount < RETRY_COUNT
    THEN {[req |-> entry.req, retryCount |-> entry.retryCount + 1]}
    ELSE {}

\* Faulty variant of failedRequestHandler: every failed attempt is counted
failedRequestHandlerEveryAttempt(entry) == errors + 1

\* failedRequestHandler: statistics.errors++
failedRequestHandler(entry) ==
    IF entry.retryCount < RETRY_COUNT THEN errors ELSE errors + 1

----------------------------------------------------------------------------
(* The run driver *)

\* The SearchParams of the first API page
FirstSearchParams(inp) ==
    [query |-> inp.search.searchQuery,
     location |-> inp.search.location,
     radius |-> 30,
     employmentTypes |-> <<>>,
     postedDate |-> <<"ANY">>,
     workplaceTypes |-> <<>>,
     easyApply |-> inp.search.easyApply,
     page |-> 1,
     pageSize |-> PAGE_SIZE]

\* buildSearchUrl(input, 1)
buildSearchUrl(inp, page) ==
    <<DICE_BASE_URL, "/jobs?">>
    \o (IF Truthy(inp.search.searchQuery) THEN <<"q=">> \o inp.search.searchQuery ELSE <<>>)
    \o (IF Truthy(inp.search.location) THEN <<"location=">> \o inp.search.location ELSE <<>>)
    \o <<"radius=", "30">>
    \o (IF inp.search.easyApply THEN <<"filters.easyApply=", "true">> ELSE <<>>)
    \o <<"page=", ToString(page), "pageSize=", "100">>

\* Faulty variant of StartUrlRequest: every start URL is routed SEARCH
StartUrlRequestAlwaysSearch(url) == NewRequest("SEARCH", url, url, 1, <<>>, <<>>)

\* The request of one custom start URL
StartUrlRequest(url) ==
    IF IncludesJobDetail(url)
    THEN NewRequest("JOB_DETAIL", url, url, 0, <<>>, <<>>)
    ELSE NewRequest("SEARCH", url, url, 1, <<>>, <<>>)

startRequests(inp) ==
    IF Len(inp.startUrls) > 0
    THEN [i \in 1..Len(inp.startUrls) |-> StartUrlRequest(inp.startUrls[i])]
    ELSE <<SearchApiRequest(FirstSearchParams(inp)),
           NewRequest("SEARCH", buildSearchUrl(inp, 1), <<"html-search-page-1">>,
                      1, <<>>, <<>>)>>

----------------------------------------------------------------------------
(* State after the module's construction *)

NoRequest == NewRequest("", <<>>, <<>>, 0, <<>>, <<>>)

\* A handler invocation: its request, its position, the jobs it has still to
\* save, and what it keeps of the page: meta.totalPages as the response
\* reported it (0: missing), whether the document has an enabled next control
Handler(entry, pc, rest, reportedPages, hasNext) ==
    [req |-> entry.req, retryCount |-> entry.retryCount, pc |-> pc, rest |-> rest,
     reportedPages |-> reportedPages, hasNext |-> hasNext]

\* What a handler segment did: the handler `h` it ran in, what it got from the
\* site ("nobody", "nodata" or "page" from the API, "nocards" or "cards" from a
\* result page, "throws" or "detail" from a detail page), jobsScraped when it
\* began, the Basic records of all jobs the page lists, those the job loop
\* kept, the requests it passed to crawler.addRequests and the records it
\* passed to Dataset.pushData
Did(ev, h, got, before, listed, jobs, added, pushed) ==
    [ev |-> ev, req |-> h.req, got |-> got, reportedPages |-> h.reportedPages,
     hasNext |-> h.hasNext, before |-> before, listed |-> listed, jobs |-> jobs,
     added |-> added, pushed |-> pushed]

NoStep ==
    Did("none", Handler([req |-> NoRequest, retryCount |-> 0], "", <<>>, 0, FALSE),
        "", 0, <<>>, <<>>, <<>>, <<>>)

\* No function has been applied
\* A call of an exported function: its name, its argument and, once it has
\* returned, its result
Call(fn, arg) == [fn |-> fn, arg |-> arg, result |-> <<>>, applied |-> FALSE]

NoCall == Call("", <<>>)

Init ==
    /\ input \in Inputs
    /\ phase = "main"
    /\ jobsScraped = 0
    /\ maxJobs = DEFAULT_MAX_JOBS
    /\ scrapeJobDetails = TRUE
    /\ queue = {}
    /\ seenKeys = {}
    /\ running = {}
    /\ handled = {}
    /\ errors = 0
    /\ dataset = EmptyBag
    /\ produced = EmptyBag
    /\ runStatistics = <<>>
    /\ last = NoStep
    /\ call = NoCall
    /\ NoLimiter

----------------------------------------------------------------------------
(* The main script *)

\* initRouter(input)
InitRouter ==
    /\ phase = "main"
    /\ phase' = "configured"
    /\ maxJobs' = initRouterMaxJobs(input)
    /\ scrapeJobDetails' = input.scrapeJobDetails
    /\ jobsScraped' = 0
    /\ UNCHANGED <<Limiter, call, input, queue, seenKeys, running, handled, errors, dataset,
                   produced, runStatistics, last>>

\* crawler.run(startRequests)
RunCrawler ==
    /\ phase = "configured"
    /\ phase' = "crawling"
    /\ queue' = Entries(startRequests(input), {})
    /\ seenKeys' = KeysOf(startRequests(input))
    /\ UNCHANGED <<Limiter, call, input, jobsScraped, maxJobs, scrapeJobDetails, running, handled,
                   errors, dataset, produced, runStatistics, last>>

\* After the run drains: Actor.setValue('RUN_STATISTICS', { ...statistics,
\* jobsScraped: itemCount, ... })
WriteStatistics ==
    /\ phase = "crawling"
    /\ queue = {}
    /\ running = {}
    /\ phase' = "done"
    /\ runStatistics' = <<[errors |-> errors, jobsScraped |-> BagCardinality(dataset)]>>
    /\ UNCHANGED <<Limiter, call, input, jobsScraped, maxJobs, scrapeJobDetails, queue, seenKeys,
                   running, handled, errors, dataset, produced, last>>

----------------------------------------------------------------------------
(* Handlers *)

CanStart(entry) ==
    /\ phase = "crawling"
    /\ entry \in queue
    /\ Cardinality(running) < MaxConcurrency

\* The fetches the site may fail are those of UnreliableUrls
CanFail(request) == request.url \in UnreliableUrls

\* if (!data || !data.data) return
HasData(response) == response.kind = "page"

\* data.meta?.totalPages || 1
TotalPages(reportedPages) == IF reportedPages # 0 THEN reportedPages ELSE 1

\* Faulty variant of NoCards: the early return is missing
NoCardsNever(doc) == FALSE

\* if (jobCards.length === 0) return
NoCards(doc) == Len(doc.cards) = 0

\* Faulty variant of QueuesDetails: the scrapeJobDetails flag is ignored
QueuesDetailsAlways(jobs) == Len(jobs) > 0

\* if (scrapeJobDetails && jobsToProcess.length > 0) ... else ...
QueuesDetails(jobs) == scrapeJobDetails /\ Len(jobs) > 0

\* Faulty variant of ApiNextPage: the request is for the page after the next
ApiNextPageSkips(h, js) ==
    LET searchParams == h.req.searchParams[1]
    IN IF shouldContinue(js) /\ searchParams.page < TotalPages(h.reportedPages)
       THEN <<SearchApiRequest(NextPageParams(searchParams, searchParams.page + 2))>>
       ELSE <<>>

\* Faulty variant of ApiNextPage: the page comparison is inclusive
ApiNextPageInclusive(h, js) ==
    LET searchParams == h.req.searchParams[1]
    IN IF shouldContinue(js) /\ searchParams.page <= TotalPages(h.reportedPages)
       THEN <<SearchApiRequest(NextPageParams(searchParams, searchParams.page + 1))>>
       ELSE <<>>

\* The SEARCH_API handler's next-page request, as a sequence of zero or one
\* request, when jobsScraped is js
ApiNextPage(h, js) ==
    LET searchParams == h.req.searchParams[1]
    IN IF shouldContinue(js) /\ searchParams.page < TotalPages(h.reportedPages)
       THEN <<SearchApiRequest(NextPageParams(searchParams, searchParams.page + 1))>>
       ELSE <<>>

\* Faulty variant of SearchNextPage: the cap is not consulted
SearchNextPageIgnoresCap(h, js) ==
    LET page == IF h.req.page # 0 THEN h.req.page ELSE 1
    IN IF h.hasNext THEN <<NextSearchRequest(h.req, page + 1)>> ELSE <<>>

\* The SEARCH handler's next-page request
SearchNextPage(h, js) ==
    LET page == IF h.req.page # 0 THEN h.req.page ELSE 1
    IN IF shouldContinue(js) /\ h.hasNext
       THEN <<NextSearchRequest(h.req, page + 1)>>
       ELSE <<>>

NextPage(h, js) ==
    IF h.req.label = "SEARCH_API" THEN ApiNextPage(h, js) ELSE SearchNextPage(h, js)

\* An attempt of `entry` fails: the request is reclaimed or, its retries
\* exhausted, handed to failedRequestHandler
AttemptFails(entry, waiting) ==
    /\ CanFail(entry.req)
    /\ queue' = waiting \cup Reclaimed(entry)
    /\ errors' = failedRequestHandler(entry)
    /\ last' = Did(IF entry.retryCount < RETRY_COUNT THEN "retry" ELSE "failed",
                   Handler(entry, "", <<>>, 0, FALSE), "", jobsScraped,
                   <<>>, <<>>, <<>>, <<>>)
    /\ UNCHANGED <<Limiter, call, input, phase, jobsScraped, maxJobs, scrapeJobDetails, seenKeys,
                   handled, dataset, produced, runStatistics>>

\* The crawler's fetch of request.url fails before the handler is called
NavigationFails(entry) ==
    /\ CanStart(entry)
    /\ AttemptFails(entry, queue \ {entry})
    /\ UNCHANGED running

\* A handler returns at once, having done nothing
Returns(ev, h, got) ==
    /\ handled' = handled \cup {h.req.uniqueKey}
    /\ last' = Did(ev, h, got, jobsScraped, <<>>, <<>>, <<>>, <<>>)
    /\ UNCHANGED <<jobsScraped, produced, seenKeys, dataset>>

\* SEARCH_API handler up to its await of sendRequest
SearchApiStart(entry) ==
    /\ CanStart(entry)
    /\ entry.req.label = "SEARCH_API"
    /\ queue' = queue \ {entry}
    /\ IF ~shouldContinue(jobsScraped)
       THEN /\ Returns("capReached", Handler(entry, "", <<>>, 0, FALSE), "")
            /\ UNCHANGED running
       ELSE /\ running' = running \cup {Handler(entry, "sendRequest", <<>>, 0, FALSE)}
            /\ last' = Did("fetching", Handler(entry, "", <<>>, 0, FALSE), "",
                           jobsScraped, <<>>, <<>>, <<>>, <<>>)
            /\ UNCHANGED <<jobsScraped, produced, seenKeys, dataset, handled>>
    /\ UNCHANGED <<Limiter, call, input, phase, maxJobs, scrapeJobDetails, errors, runStatistics>>

\* sendRequest rejects: the catch block rethrows to the crawler
SearchApiFetchFails(h) ==
    /\ h \in running
    /\ h.pc = "sendRequest"
    /\ running' = running \ {h}
    /\ AttemptFails([req |-> h.req, retryCount |-> h.retryCount], queue)

\* The segment of a search handler that runs the job loop over the page and
\* goes on to its first await: `loop` is the loop's result, `listed` the Basic
\* records of all jobs of the page, `h` the handler as it suspends, `others`
\* and `waiting` the other handlers in flight and the requests left waiting
PageSegment(h, got, others, waiting, listed, loop) ==
    LET jobs == loop.jobs
        next == NextPage(h, loop.scraped)
    IN /\ jobsScraped' = loop.scraped
       /\ produced' = produced (+) SeqToBag(jobs)
       /\ IF QueuesDetails(jobs)
          THEN /\ queue' = waiting \cup Entries(DetailRequests(jobs), seenKeys)
               /\ seenKeys' = seenKeys \cup KeysOf(DetailRequests(jobs))
               /\ running' = others \cup {h}
               /\ last' = Did("page", h, got, jobsScraped, listed, jobs,
                              DetailRequests(jobs), <<>>)
               /\ UNCHANGED <<dataset, handled>>
          ELSE IF Len(jobs) > 0
          THEN /\ dataset' = dataset (+) SetToBag({Stamped(jobs[1])})
               /\ running' = others \cup {[h EXCEPT !.rest = Tail(jobs)]}
               /\ queue' = waiting
               /\ last' = Did("page", h, got, jobsScraped, listed, jobs, <<>>,
                              <<Stamped(jobs[1])>>)
               /\ UNCHANGED <<seenKeys, handled>>
          ELSE /\ queue' = waiting \cup Entries(next, seenKeys)
               /\ seenKeys' = seenKeys \cup KeysOf(next)
               /\ running' = others
               /\ handled' = handled \cup {h.req.uniqueKey}
               /\ last' = Did("page", h, got, jobsScraped, listed, jobs, next, <<>>)
               /\ UNCHANGED dataset

\* SEARCH_API handler from the response of sendRequest on
SearchApiResponse(h, response) ==
    /\ h \in running
    /\ h.pc = "sendRequest"
    /\ jobsScraped + Len(response.data) <= MaxScraped
    /\ IF ~HasData(response)
       THEN /\ running' = running \ {h}
            /\ queue' = queue
            /\ Returns("noData", [h EXCEPT !.reportedPages = response.totalPages],
                       response.kind)
       ELSE PageSegment(
                [h EXCEPT !.pc = "resume",
                          !.retryCount = 0,
                          !.reportedPages = response.totalPages],
                response.kind,
                running \ {h},
                queue,
                [i \in 1..Len(response.data) |-> parseJobFromApi(response.data[i])],
                ApiJobLoop(response.data, 1, <<>>, jobsScraped))
    /\ UNCHANGED <<Limiter, call, input, phase, maxJobs, scrapeJobDetails, errors, runStatistics>>

\* SEARCH handler up to its first await, on the fetched document
SearchStart(entry, doc) ==
    /\ CanStart(entry)
    /\ entry.req.label = "SEARCH"
    /\ doc.hasNext => entry.req.page < MaxPages
    /\ jobsScraped + Len(doc.cards) <= MaxScraped
    /\ IF ~shouldContinue(jobsScraped)
       THEN /\ queue' = queue \ {entry}
            /\ Returns("capReached", Handler(entry, "", <<>>, 0, doc.hasNext),
                       IF doc.cards = <<>> THEN "nocards" ELSE "cards")
            /\ UNCHANGED running
       ELSE IF NoCards(doc)
       THEN /\ queue' = queue \ {entry}
            /\ Returns("noData", Handler(entry, "", <<>>, 0, doc.hasNext),
                       IF doc.cards = <<>> THEN "nocards" ELSE "cards")
            /\ UNCHANGED running
       ELSE PageSegment(
                Handler([entry EXCEPT !.retryCount = 0], "resume", <<>>, 0, doc.hasNext),
                IF doc.cards = <<>> THEN "nocards" ELSE "cards",
                running,
                queue \ {entry},
                [i \in 1..Len(doc.cards) |-> CardToJob(doc.cards[i], i - 1)],
                CardLoop(doc.cards, 1, <<>>, jobsScraped))
    /\ UNCHANGED <<Limiter, call, input, phase, maxJobs, scrapeJobDetails, errors, runStatistics>>

\* A search handler resumes after an await: it saves the next job, or, the jobs
\* saved or their detail requests added, goes on to the next-page check
Resume(h) ==
    /\ h \in running
    /\ h.pc = "resume"
    /\ IF h.rest # <<>>
       THEN /\ dataset' = dataset (+) SetToBag({Stamped(Head(h.rest))})
            /\ running' = (running \ {h}) \cup {[h EXCEPT !.rest = Tail(h.rest)]}
            /\ last' = Did("push", h, "", jobsScraped, <<>>, <<>>, <<>>,
                           <<Stamped(Head(h.rest))>>)
            /\ UNCHANGED <<queue, seenKeys, handled>>
       ELSE /\ queue' = queue \cup Entries(NextPage(h, jobsScraped), seenKeys)
            /\ seenKeys' = seenKeys \cup KeysOf(NextPage(h, jobsScraped))
            /\ running' = running \ {h}
            /\ handled' = handled \cup {h.req.uniqueKey}
            /\ last' = Did("nextPage", h, "", jobsScraped, <<>>, <<>>,
                           NextPage(h, jobsScraped), <<>>)
            /\ UNCHANGED dataset
    /\ UNCHANGED <<Limiter, call, input, phase, jobsScraped, maxJobs, scrapeJobDetails, errors,
                   produced, runStatistics>>

\* Faulty variant of JobDetailPushes: a failed extraction persists nothing
JobDetailPushesNoFallback(request, doc) ==
    IF ~doc.throws
    THEN <<extractJobDetails(doc, request.jobBasic, request.url)>>
    ELSE <<>>

\* The records the JOB_DETAIL handler passes to Dataset.pushData
JobDetailPushes(request, doc) ==
    IF ~doc.throws
    THEN <<extractJobDetails(doc, request.jobBasic, request.url)>>
    ELSE IF request.jobBasic # <<>>
    THEN <<FailureRecord(request.jobBasic[1])>>
    ELSE <<>>

\* JOB_DETAIL handler on the fetched document
JobDetail(entry, doc) ==
    /\ CanStart(entry)
    /\ entry.req.label = "JOB_DETAIL"
    /\ queue' = queue \ {entry}
    /\ handled' = handled \cup {entry.req.uniqueKey}
    /\ dataset' = dataset (+) SeqToBag(JobDetailPushes(entry.req, doc))
    /\ last' = Did("detail", Handler(entry, "", <<>>, 0, FALSE),
                   IF doc.throws THEN "throws" ELSE "detail", jobsScraped,
                   <<>>, <<>>, <<>>, JobDetailPushes(entry.req, doc))
    /\ UNCHANGED <<Limiter, call, input, phase, jobsScraped, maxJobs, scrapeJobDetails, seenKeys,
                   running, errors, produced, runStatistics>>

----------------------------------------------------------------------------
(* Specifications *)

Next ==
    \/ InitRouter
    \/ RunCrawler
    \/ WriteStatistics
    \/ \E entry \in queue : NavigationFails(entry)
    \/ \E entry \in queue : SearchApiStart(entry)
    \/ \E h \in running : SearchApiFetchFails(h)
    \/ \E h \in running, response \in ApiResponses : SearchApiResponse(h, response)
    \/ \E entry \in queue, doc \in SearchDocs : SearchStart(entry, doc)
    \/ \E h \in running : Resume(h)
    \/ \E entry \in queue, doc \in DetailDocs : JobDetail(entry, doc)

Spec == Init /\ [][Next]_vars

\* One iteration of a job loop: the cap check and the increment
CountJob ==
    /\ phase = "configured"
    /\ jobsScraped < MaxCounted
    /\ shouldContinue(jobsScraped)
    /\ jobsScraped' = jobsScraped + 1
    /\ UNCHANGED <<Limiter, call, input, phase, maxJobs, scrapeJobDetails, queue, seenKeys, running,
                   handled, errors, dataset, produced, runStatistics, last>>

NextCap == InitRouter \/ CountJob

\* initRouter followed by iterations of the job loop alone
SpecCap == Init /\ [][NextCap]_vars

----------------------------------------------------------------------------
(* Properties *)

\* A string that is present and not ''
NonEmpty(v) == v # Undefined /\ v # <<>>

\* A record without the fields a detail page or a failed extraction adds
IsBasic(r) == r.description = Undefined /\ r.error = Undefined

Unstamped(r) == [r EXCEPT !.scrapedAt = Undefined]

\* The number of records of the dataset that are the Basic record b with
\* scrapedAt set
PersistedCopies(b) ==
    LET copies == {r \in BagToSet(dataset) :
                     IsBasic(r) /\ r.scrapedAt # Undefined /\ Unstamped(r) = b}
    IN BagCardinality([r \in copies |-> dataset[r]])

\* The number of copies of b the handlers hs have still to save
RECURSIVE PendingCopies(_, _)
PendingCopies(b, hs) ==
    IF hs = {} THEN 0
    ELSE LET h == CHOOSE x \in hs : TRUE
         IN Cardinality({i \in 1..Len(h.rest) : h.rest[i] = b})
              + PendingCopies(b, hs \ {h})

\* The keys of the requests waiting or being handled
PendingKeys == {e.req.uniqueKey : e \in queue} \cup {h.req.uniqueKey : h \in running}

\* The keys of the requests the crawler has given up
GivenUp == seenKeys \ (PendingKeys \cup handled)

\* A step in which a handler segment ran
Stepped == last' # last

(* C1: in a run configured with maxJobs > 0 the number of records passed to
   Dataset.pushData never exceeds maxJobs, whatever handlers ran, JOB_DETAIL
   requests seeded from custom start URLs included. *)
C1_PersistedWithinMaxJobs ==
    (phase # "main" /\ input.maxJobs > 0) => BagCardinality(dataset) <= input.maxJobs

(* C2: configured with maxJobs = 0, after initRouter shouldContinue() is true
   for every value of jobsScraped. *)
C2_ZeroDisablesCap ==
    (phase = "configured" /\ input.maxJobs = 0) => shouldContinue(jobsScraped)

(* C3: every record passed to Dataset.pushData has a non-empty id and a
   non-empty url. *)
C3_RecordsHaveIdAndUrl ==
    \A r \in BagToSet(dataset) : NonEmpty(r.id) /\ NonEmpty(r.url)

(* C4: each Basic record a search handler produces goes down exactly one path.
   With scrapeJobDetails true the handler passes to addRequests exactly one
   JOB_DETAIL request per record, carrying it, and saves nothing; no Basic
   record is in the dataset and a successful extraction saves a Full record.
   With scrapeJobDetails false the handler adds no JOB_DETAIL request, no
   request carries a Basic record, and each produced record is saved exactly
   once with scrapedAt set (or is the next one its handler saves). *)
C4_OnePathPerBasicRecord ==
    /\ (last.ev = "page" /\ scrapeJobDetails /\ last.jobs # <<>>) =>
          /\ last.pushed = <<>>
          /\ Len(last.added) = Len(last.jobs)
          /\ \A i \in 1..Len(last.jobs) :
                /\ last.added[i].label = "JOB_DETAIL"
                /\ last.added[i].jobBasic = <<last.jobs[i]>>
    /\ (last.ev \in {"page", "push", "nextPage"} /\ ~scrapeJobDetails) =>
          /\ \A i \in 1..Len(last.added) : last.added[i].label # "JOB_DETAIL"
          /\ \A i \in 1..Len(last.pushed) : last.pushed[i].scrapedAt # Undefined
    /\ (last.ev = "detail" /\ last.got = "detail") =>
          /\ Len(last.pushed) = 1
          /\ ~IsBasic(last.pushed[1])
    /\ (phase \in {"crawling", "done"} /\ scrapeJobDetails) =>
          /\ \A r \in BagToSet(dataset) : ~IsBasic(r)
          /\ \A h \in running : h.rest = <<>>
    /\ (phase \in {"crawling", "done"} /\ ~scrapeJobDetails) =>
          /\ \A e \in queue : e.req.jobBasic = <<>>
          /\ \A r \in BagToSet(dataset) :
                IsBasic(r) => r.scrapedAt # Undefined /\ Unstamped(r) \in BagToSet(produced)
          /\ \A b \in BagToSet(produced) :
                PersistedCopies(b) + PendingCopies(b, running) = CopiesIn(b, produced)

C4_Witness ==
    /\ last.ev = "page"
    /\ scrapeJobDetails
    /\ Len(last.jobs) = 2
    /\ Len(last.added) = 2

\* A JOB_DETAIL handler invocation ends in this step
DetailReturned ==
    /\ Stepped
    /\ last'.ev = "detail"

(* C5 as stated: every JOB_DETAIL invocation ends with exactly one more record
   in the dataset. *)
C5_EveryDetailPersistsOne ==
    [][DetailReturned => BagCardinality(dataset') = BagCardinality(dataset) + 1]_vars

(* C5: every JOB_DETAIL invocation ends normally, its request neither retried
   nor counted as an error. When extraction raises, the handler saves the
   carried basic record with the failure marker if the request carries one, and
   saves nothing if it carries none (a request seeded from a start URL);
   otherwise it saves exactly one record. *)
C5_DetailFailureDegrades ==
    [][DetailReturned =>
          LET request == last'.req
          IN /\ request.uniqueKey \in handled'
             /\ request.uniqueKey \notin PendingKeys'
             /\ errors' = errors
             /\ IF last'.got # "throws"
                THEN \E r \in BagToSet(dataset') :
                        /\ dataset' = dataset (+) SetToBag({r})
                        /\ r.error = Undefined
                ELSE IF request.jobBasic # <<>>
                THEN \E r \in BagToSet(dataset') :
                        /\ dataset' = dataset (+) SetToBag({r})
                        /\ NonEmpty(r.error)
                        /\ [r EXCEPT !.error = Undefined, !.scrapedAt = Undefined]
                             = request.jobBasic[1]
                ELSE dataset' = dataset]_vars

C5_Witness ==
    /\ last.ev = "detail"
    /\ last.got = "throws"
    /\ last.req.jobBasic # <<>>
    /\ \E r \in BagToSet(dataset) :
          NonEmpty(r.error) /\ r.url = last.req.url

\* A search handler runs its job loop over a page in this step
PageStep ==
    /\ Stepped
    /\ last'.ev = "page"

\* The handler of `request` among the handlers hs, as a set
HandlerOf(request, hs) == {h \in hs : h.req = request}

(* C6: a search handler on a page listing n jobs, r = maxJobs - jobsScraped
   jobs remaining under the cap, produces exactly the first min(n, r) jobs of
   the page in listing order, adds min(n, r) to jobsScraped, and passes to
   addRequests a detail request for exactly those jobs or saves exactly those
   jobs, one per await. *)
C6_FirstJobsUnderCap ==
    [][PageStep =>
          LET listed == last'.listed
              k == Min(Len(listed), maxJobs - jobsScraped)
              jobs == SubSeq(listed, 1, k)
          IN /\ last'.jobs = jobs
             /\ jobsScraped' = jobsScraped + k
             /\ produced' = produced (+) SeqToBag(jobs)
             /\ IF scrapeJobDetails
                THEN /\ dataset' = dataset
                     /\ k > 0 => /\ Len(last'.added) = k
                                 /\ \A i \in 1..k :
                                       /\ last'.added[i].label = "JOB_DETAIL"
                                       /\ last'.added[i].url = jobs[i].url
                                       /\ last'.added[i].jobBasic = <<jobs[i]>>
                ELSE /\ \A i \in 1..Len(last'.added) :
                           last'.added[i].label # "JOB_DETAIL"
                     /\ dataset' = dataset (+) SeqToBag(last'.pushed)
                     /\ k > 0 =>
                          \E h \in HandlerOf(last'.req, running') :
                             [i \in 1..Len(last'.pushed) |-> Unstamped(last'.pushed[i])]
                                \o h.rest = jobs]_vars

C6_Witness ==
    /\ last.ev = "page"
    /\ Len(last.listed) = 2
    /\ maxJobs - last.before = 1
    /\ Len(last.jobs) = 1
    /\ jobsScraped = maxJobs

\* The SEARCH_API handler of last'.req reaches its next-page check in this step
ApiDecidesNext ==
    /\ Stepped
    /\ last'.req.label = "SEARCH_API"
    /\ \/ last'.ev = "nextPage"
       \/ last'.ev = "page" /\ last'.jobs = <<>>

(* C7: the SEARCH_API handler for page p enqueues a next request if and only
   if shouldContinue() holds after the page's jobs are processed and p is less
   than the totalPages the response reported; what it enqueues is exactly one
   SEARCH_API request for page p + 1 whose SearchParams equal the current ones
   in every field but page. *)
C7_ApiNextPage ==
    [][ApiDecidesNext =>
          LET searchParams == last'.req.searchParams[1]
              p == searchParams.page
              goesOn == /\ maxJobs = 0 \/ jobsScraped' < maxJobs
                        /\ p < last'.reportedPages
              new == queue' \ queue
          IN IF goesOn
             THEN \E e \in new :
                     /\ new = {e}
                     /\ e.retryCount = 0
                     /\ e.req.label = "SEARCH_API"
                     /\ e.req.page = p + 1
                     /\ e.req.searchParams = <<[searchParams EXCEPT !.page = p + 1]>>
                     /\ last'.added = <<e.req>>
             ELSE new = {} /\ last'.added = <<>>]_vars

C7_Witness ==
    /\ last.req.label = "SEARCH_API"
    /\ last.ev = "nextPage"
    /\ last.reportedPages = 2
    /\ Len(last.added) = 1
    /\ last.added[1].page = 2
    /\ \E e \in queue : e.req = last.added[1]

(* C8: the SEARCH handler enqueues a next-page SEARCH request only if the
   document has an enabled next control and shouldContinue() holds after the
   page's cards are processed; the request is for page + 1. *)
C8_SearchNextPage ==
    [][(Stepped /\ last'.req.label = "SEARCH") =>
          \A e \in queue' \ queue :
             e.req.label = "SEARCH" =>
                /\ last'.hasNext
                /\ maxJobs = 0 \/ jobsScraped' < maxJobs
                /\ e.req.page = last'.req.page + 1
                /\ last'.added = <<e.req>>
                /\ \/ last'.ev = "nextPage"
                   \/ last'.ev = "page" /\ last'.jobs = <<>>]_vars

C8_Witness ==
    /\ last.req.label = "SEARCH"
    /\ last.hasNext
    /\ Len(last.added) = 1
    /\ last.added[1].label = "SEARCH"
    /\ last.added[1].page = 2
    /\ \E e \in queue : e.req = last.added[1]

\* A handler finds its page empty or malformed in this step
EmptyPage ==
    /\ Stepped
    /\ last'.got \in {"nobody", "nodata", "nocards"}

(* C9: when the API response has no body or no data field, or the document has
   no job card, the handler returns normally, saves nothing, enqueues no
   request and leaves jobsScraped unchanged. *)
C9_EmptyPageEndsBranch ==
    [][EmptyPage =>
          /\ last'.req.uniqueKey \in handled'
          /\ HandlerOf(last'.req, running') = {}
          /\ dataset' = dataset
          /\ produced' = produced
          /\ queue' \subseteq queue
          /\ seenKeys' = seenKeys
          /\ jobsScraped' = jobsScraped
          /\ errors' = errors]_vars

C9_Witness ==
    /\ last.got \in {"nodata", "nocards"}
    /\ last.ev = "noData"
    /\ last.reportedPages = MaxPages \/ last.hasNext
    /\ last.req.uniqueKey \in handled

\* h is a SEARCH_API handler whose fetch raises in this step
FetchRaises(h) ==
    /\ h \in running
    /\ h.pc = "sendRequest"
    /\ h \notin running'
    /\ h.req.uniqueKey \notin handled'
    /\ HandlerOf(h.req, running') = {}

\* The entries waiting or being handled
PendingEntries == queue \cup {[req |-> h.req, retryCount |-> h.retryCount] : h \in running}

(* C10: a request whose fetch fails on every attempt does not abort the run.
   The error count is the number of requests the crawler has given up; it
   grows by one, and only, when an attempt of a request retried RETRY_COUNT
   times fails; a fetch exception in the SEARCH_API handler puts the request
   back for a retry or gives it up, and touches nothing else; while the run is
   not over a step is possible, and the final statistics report the count. *)
C10_FailuresCountedNotFatal ==
    /\ [](phase \in {"crawling", "done"} => errors = Cardinality(GivenUp))
    /\ [](phase # "done" => ENABLED Next)
    /\ [](phase = "done" =>
            /\ queue = {} /\ running = {}
            /\ seenKeys = handled \cup GivenUp
            /\ Len(runStatistics) = 1
            /\ runStatistics[1].errors = Cardinality(GivenUp))
    /\ [][(errors' # errors \/ GivenUp' # GivenUp) =>
            \E e \in PendingEntries :
               /\ e.retryCount = RETRY_COUNT
               /\ e.req.uniqueKey \notin GivenUp
               /\ GivenUp' = GivenUp \cup {e.req.uniqueKey}
               /\ errors' = errors + 1
               /\ queue' = queue \ {e}]_vars
    /\ [][\A h \in running :
            FetchRaises(h) =>
               /\ IF h.retryCount < RETRY_COUNT
                  THEN /\ queue' = queue \cup {[req |-> h.req,
                                                retryCount |-> h.retryCount + 1]}
                       /\ errors' = errors
                  ELSE /\ queue' = queue
                       /\ errors' = errors + 1
               /\ running' = running \ {h}
               /\ UNCHANGED <<dataset, jobsScraped, handled, seenKeys, phase>>]_vars

C10_Witness ==
    /\ phase = "done"
    /\ errors = 1
    /\ runStatistics[1].errors = 1
    /\ handled # {}
    /\ BagCardinality(dataset) > 0

\* crawler.run(startRequests) is called in this step
SeedsQueue ==
    /\ phase = "configured"
    /\ phase' = "crawling"

(* C11: the initial request set. With custom start URLs it holds exactly one
   request per start URL, labelled JOB_DETAIL when the URL contains the
   segment /job-detail/ and SEARCH otherwise, and no request derived from the
   search parameters; otherwise it holds exactly two requests, one SEARCH_API
   for page 1 and one SEARCH for page 1. *)
C11_InitialRequests ==
    [][SeedsQueue =>
          LET seeds == {e.req : e \in queue'}
              startUrls == input.startUrls
          IN /\ \A e \in queue' : e.retryCount = 0
             /\ IF Len(startUrls) > 0
                THEN /\ Cardinality(seeds) = Len(startUrls)
                     /\ \A i \in 1..Len(startUrls) :
                           \E r \in seeds :
                              /\ r.url = startUrls[i]
                              /\ r.label =
                                    IF \E k \in 1..Len(r.url) : r.url[k] = "/job-detail/"
                                    THEN "JOB_DETAIL" ELSE "SEARCH"
                     /\ \A r \in seeds :
                           /\ \E i \in 1..Len(startUrls) : r.url = startUrls[i]
                           /\ r.label # "SEARCH_API"
                           /\ r.searchParams = <<>>
                ELSE /\ Cardinality(seeds) = 2
                     /\ \E a \in seeds :
                           /\ a.label = "SEARCH_API"
                           /\ a.page = 1
                           /\ a.searchParams[1].page = 1
                           /\ a.searchParams[1].query = input.search.searchQuery
                     /\ \E h \in seeds :
                           /\ h.label = "SEARCH"
                           /\ h.page = 1
                           /\ h.url = buildSearchUrl(input, 1)]_vars

C11_Witness ==
    /\ phase = "crawling"
    /\ last = NoStep
    /\ Len(input.startUrls) = 2
    /\ Cardinality(queue) = 2
    /\ \A e \in queue : e.req.label = "JOB_DETAIL" /\ e.req.jobBasic = <<>>

----------------------------------------------------------------------------
(* utils.ts: cleanText *)

MaxTextLen == 4         \* tokens of a text given to cleanText

\* The sequences over `alphabet` of at most n tokens
RECURSIVE SeqsUpTo(_, _)
SeqsUpTo(alphabet, n) ==
    IF n = 0 THEN {<<>>}
    ELSE LET shorter == SeqsUpTo(alphabet, n - 1)
         IN shorter \cup {Append(t, a) : t \in shorter, a \in alphabet}

\* A text is a sequence of tokens: "&" followed by "amp;" is the entity &amp;,
\* " " is a white-space character, "b" a letter
TextTokens == {"&", "amp;", "lt;", "gt;", "nbsp;", "<", ">", " ", "b"}

Texts == SeqsUpTo(TextTokens, MaxTextLen)

\* text.replace(/&name;/g, out): one pass from the left, the output not rescanned
RECURSIVE ReplaceEntity(_, _, _)
ReplaceEntity(text, name, out) ==
    IF text = <<>> THEN <<>>
    ELSE IF Len(text) >= 2 /\ text[1] = "&" /\ text[2] = name
    THEN <<out>> \o ReplaceEntity(SubSeq(text, 3, Len(text)), name, out)
    ELSE <<text[1]>> \o ReplaceEntity(Tail(text), name, out)

\* The position of the first ">" of text at or after position i, 0 if none
RECURSIVE NextClose(_, _)
NextClose(text, i) ==
    IF i > Len(text) THEN 0
    ELSE IF text[i] = ">" THEN i
    ELSE NextClose(text, i + 1)

\* text.replace(/<[^>]*>/g, '')
RECURSIVE StripTags(_)
StripTags(text) ==
    IF text = <<>> THEN <<>>
    ELSE IF text[1] = "<" /\ NextClose(text, 2) # 0
    THEN StripTags(SubSeq(text, NextClose(text, 2) + 1, Len(text)))
    ELSE <<text[1]>> \o StripTags(Tail(text))

\* text.replace(/\s+/g, ' ')
RECURSIVE CollapseSpaces(_)
CollapseSpaces(text) ==
    IF text = <<>> THEN <<>>
    ELSE IF Len(text) >= 2 /\ text[1] = " " /\ text[2] = " "
    THEN CollapseSpaces(Tail(text))
    ELSE <<text[1]>> \o CollapseSpaces(Tail(text))

\* text.trim(), of a text whose white space is collapsed
Trim(text) ==
    LET first == IF text # <<>> /\ text[1] = " " THEN 2 ELSE 1
        cut == SubSeq(text, first, Len(text))
    IN IF cut # <<>> /\ cut[Len(cut)] = " " THEN SubSeq(cut, 1, Len(cut) - 1) ELSE cut

cleanText(text) ==
    IF text = <<>> \/ text = Undefined THEN <<>>
    ELSE LET t1 == ReplaceEntity(text, "nbsp;", " ")
             t2 == ReplaceEntity(t1, "amp;", "&")
             t3 == ReplaceEntity(t2, "lt;", "<")
             t4 == ReplaceEntity(t3, "gt;", ">")
             t5 == ReplaceEntity(t4, "quot;", "\"")
             t6 == ReplaceEntity(t5, "#39;", "'")
         IN Trim(CollapseSpaces(StripTags(t6)))

\* The variables a function application leaves alone
Program == <<input, phase, jobsScraped, maxJobs, scrapeJobDetails, queue, seenKeys,
             running, handled, errors, dataset, produced, runStatistics, last>>

\* The pending call of fn returns result
Applied(fn, result) ==
    /\ call.fn = fn
    /\ ~call.applied
    /\ call' = [call EXCEPT !.result = result, !.applied = TRUE]
    /\ UNCHANGED <<Program, Limiter>>

\* The call of fn has returned
Called(fn) == call.fn = fn /\ call.applied

CleanText == Applied("cleanText", cleanText(call.arg))

(* C17: cleanText is idempotent: cleanText(cleanText(s)) = cleanText(s) for
   every text s, texts with encoded entities included. *)
C17_CleanTextIdempotent ==
    Called("cleanText") => cleanText(call.result) = call.result

----------------------------------------------------------------------------
(* utils.ts: formatPostedDate and the posted date of parseJobFromApi *)

MaxDaysAgo == 120       \* age in days of the oldest posted date

\* The day of `now`, in days since the epoch
NowDay == MaxDaysAgo + 7

\* A date string: '' , a string Date cannot parse, or the ISO form of a day
\* between MaxDaysAgo days ago and tomorrow
IsoDate(day) == <<"iso:", ToString(day)>>

DateStrings ==
    {<<>>, <<"soon">>, <<"3", " ", "weeks">>}
    \cup {IsoDate(day) : day \in (NowDay - MaxDaysAgo)..(NowDay + 1)}

\* new Date(dateString): an invalid date has the time value NaN; a time value
\* is counted in days (1000 * 60 * 60 * 24 ms)
NewDate(dateString) ==
    IF Len(dateString) = 2 /\ dateString[1] = "iso:"
    THEN [nan |-> FALSE,
          day |-> CHOOSE day \in 0..(NowDay + 1) : ToString(day) = dateString[2]]
    ELSE [nan |-> TRUE, day |-> 0]

\* date.toLocaleDateString('en-US', ...)
ToLocaleDateString(date) ==
    IF date.nan THEN <<"Invalid Date">> ELSE <<"date:", ToString(date.day)>>

\* formatPostedDate: nothing in the try block throws, so the catch block that
\* returns dateString is never entered; a comparison with NaN is false
formatPostedDate(dateString) ==
    IF ~Truthy(dateString) THEN <<"Unknown">>
    ELSE LET date == NewDate(dateString)
             diffDays == NowDay - date.day
         IN IF ~date.nan /\ diffDays = 0 THEN <<"Today">>
            ELSE IF ~date.nan /\ diffDays = 1 THEN <<"Yesterday">>
            ELSE IF ~date.nan /\ diffDays < 7 THEN <<ToString(diffDays), " days ago">>
            ELSE IF ~date.nan /\ diffDays < 30
            THEN <<ToString(diffDays \div 7), " week",
                   IF diffDays \div 7 > 1 THEN "s" ELSE "", " ago">>
            ELSE ToLocaleDateString(date)

\* job.postedDate ? new Date(job.postedDate).getTime() : undefined
postedDateTimestamp(postedDate) ==
    IF ~Truthy(postedDate) THEN [kind |-> "absent", day |-> 0]
    ELSE IF NewDate(postedDate).nan THEN [kind |-> "NaN", day |-> 0]
    ELSE [kind |-> "number", day |-> NewDate(postedDate).day]

FormatPostedDate == Applied("formatPostedDate", formatPostedDate(call.arg))

\* parseJobFromApi, as to the posted date of the job
ParseJobPostedDate ==
    Applied("parseJobFromApi",
            [postedDate |-> formatPostedDate(call.arg),
             postedDateTimestamp |-> postedDateTimestamp(call.arg)])

(* C18: formatPostedDate returns "Unknown" for the empty string and, for
   every non-empty string that is not a date, the string itself. *)
C18_UnparseableDateUnchanged ==
    Called("formatPostedDate") =>
       /\ call.arg = <<>> => call.result = <<"Unknown">>
       /\ (call.arg # <<>> /\ call.arg[1] # "iso:") => call.result = call.arg

(* C20: parseJobFromApi sets postedDateTimestamp to the epoch milliseconds of
   the raw posted date when the date is parseable, leaves it absent otherwise,
   and never sets it to NaN. *)
C20_TimestampNeverNaN ==
    Called("parseJobFromApi") =>
       /\ call.result.postedDateTimestamp.kind # "NaN"
       /\ IF call.arg # Undefined /\ call.arg # <<>> /\ call.arg[1] = "iso:"
          THEN call.result.postedDateTimestamp = [kind |-> "number",
                                                   day |-> NewDate(call.arg).day]
          ELSE call.result.postedDateTimestamp.kind = "absent"

----------------------------------------------------------------------------
(* utils.ts: parseSalaryFromText *)

\* A salary text is a sequence of tokens: "$", a number, "K", the separator
\* "-" with the white space around it, a period marker, a word
NumTokens == {"50", "80", "120", "1500", "80,000"}

PeriodTokens == {"/hour", "/year"}

\* parseFloat(val.replace(/,/g, ''))
ParseFloat(val) ==
    CASE val = "50" -> 50
      [] val = "80" -> 80
      [] val = "120" -> 120
      [] val = "1500" -> 1500
      [] val = "80,000" -> 80000

\* The bounds a salary text may show: 80, $80, 80K, $80K
SalaryBounds ==
    LET plain == {<<n>> : n \in NumTokens} \cup {<<"$", n>> : n \in NumTokens}
    IN plain \cup {Append(b, "K") : b \in plain}

SalaryTexts ==
    {<<>>, <<"Competitive">>}
    \cup {b \o p : b \in SalaryBounds, p \in {<<>>} \cup {<<m>> : m \in PeriodTokens}}
    \cup {lo \o <<"-">> \o hi \o p :
            lo \in SalaryBounds, hi \in SalaryBounds,
            p \in {<<>>} \cup {<<m>> : m \in PeriodTokens}}

TokenAt(text, i) == IF i >= 1 /\ i <= Len(text) THEN text[i] ELSE ""

\* The position of the second number of a range whose first number is at
\* position i, 0 if no range starts there:
\* ([\d,]+...)\s*[kK]?\s*[-...]+\s*\$?([\d,]+...)
RangeAt(text, i) ==
    LET afterK == IF TokenAt(text, i + 1) = "K" THEN i + 2 ELSE i + 1
        second == IF TokenAt(text, afterK + 1) = "$" THEN afterK + 2 ELSE afterK + 1
    IN IF /\ TokenAt(text, i) \in NumTokens
          /\ TokenAt(text, afterK) = "-"
          /\ TokenAt(text, second) \in NumTokens
       THEN second ELSE 0

\* The least element of a non-empty set of positions
Least(positions) == CHOOSE i \in positions : \A j \in positions : i <= j

\* text.match(range pattern): the two captured numbers, <<>> for null; the K
\* suffixes stand outside the capturing groups
RangeMatch(text) ==
    LET starts == {i \in 1..Len(text) : RangeAt(text, i) # 0}
    IN IF starts = {} THEN <<>>
       ELSE <<text[Least(starts)], text[RangeAt(text, Least(starts))]>>

\* text.match(single pattern): the captured number
SingleMatch(text) ==
    LET starts == {i \in 1..Len(text) : text[i] \in NumTokens}
    IN IF starts = {} THEN <<>> ELSE <<text[Least(starts)]>>

\* text.match(/\/(hour|hr|year|yr|month|mo|week|wk|day)/i): the captured period
PeriodMatch(text) ==
    LET starts == {i \in 1..Len(text) : text[i] \in PeriodTokens}
    IN IF starts = {} THEN <<>>
       ELSE <<IF text[Least(starts)] = "/hour" THEN "hour" ELSE "year">>

\* val.toLowerCase().includes('k'), val being a captured number
IncludesK(val) == val \in {"k", "K"}

parseValue(val, periodMatch) ==
    LET num == ParseFloat(val)
    IN IF IncludesK(val) \/ (num < 1000 /\ periodMatch = <<>>) THEN num * 1000 ELSE num

\* parseSalaryFromText: <<>> for null
parseSalaryFromText(text) ==
    LET rangeMatch == RangeMatch(text)
        singleMatch == SingleMatch(text)
        periodMatch == PeriodMatch(text)
    IN IF text = <<>> THEN <<>>
       ELSE IF rangeMatch # <<>>
       THEN <<[currency |-> "USD",
               max |-> parseValue(rangeMatch[2], periodMatch),
               min |-> parseValue(rangeMatch[1], periodMatch),
               period |-> IF periodMatch # <<>> THEN periodMatch[1] ELSE "year"]>>
       ELSE IF singleMatch # <<>>
       THEN <<[currency |-> "USD",
               max |-> parseValue(singleMatch[1], periodMatch),
               min |-> parseValue(singleMatch[1], periodMatch),
               period |-> IF periodMatch # <<>> THEN periodMatch[1] ELSE "year"]>>
       ELSE <<>>

ParseSalaryFromText == Applied("parseSalaryFromText", parseSalaryFromText(call.arg))

\* The value the bound written at position i of text stands for, when it has
\* a K suffix or the text has a period marker
WrittenBound(text, i) ==
    IF TokenAt(text, i + 1) = "K" THEN 1000 * ParseFloat(text[i]) ELSE ParseFloat(text[i])

(* C19: in a range or single-value salary text a bound written with a K
   suffix is returned as 1000 times its number, with or without a period
   marker, and a bound written without K in a text with a period marker is
   returned as written. *)
C19_KSuffixIsThousand ==
    (Called("parseSalaryFromText") /\ call.result # <<>>) =>
       LET text == call.arg
           numbers == {i \in 1..Len(text) : text[i] \in NumTokens}
           first == Least(numbers)
           last_ == CHOOSE i \in numbers : \A j \in numbers : j <= i
           hasPeriod == \E i \in 1..Len(text) : text[i] \in PeriodTokens
       IN /\ (TokenAt(text, first + 1) = "K" \/ hasPeriod) =>
                call.result[1].min = WrittenBound(text, first)
          /\ (TokenAt(text, last_ + 1) = "K" \/ hasPeriod) =>
                call.result[1].max = WrittenBound(text, last_)

----------------------------------------------------------------------------
(* Record ids within a run *)

\* The number of records of the dataset whose id is `id`
RecordsWithId(id) ==
    LET same == {r \in BagToSet(dataset) : r.id = id}
    IN BagCardinality([r \in same |-> dataset[r]])

\* C15: no two records of the dataset of a run have the same id, whichever
\* API pages, HTML pages and detail pages the run has processed
C15_UniqueIds == \A r \in BagToSet(dataset) : RecordsWithId(r.id) = 1

----------------------------------------------------------------------------
(* The counter under concurrent handlers *)

\* C21: whatever the interleaving of the SEARCH_API and SEARCH handlers in
\* flight, control passing from one to another at their awaits only,
\* jobsScraped never exceeds maxJobs when maxJobs is above 0
C21_CounterWithinMaxJobs == maxJobs > 0 => jobsScraped <= maxJobs

\* A SEARCH_API handler passed the cap check before its await, the cap was
\* reached by another handler while it waited, and its job loop over a page
\* with jobs kept none
C21_Witness ==
    /\ input.maxJobs > 0
    /\ last.req.label = "SEARCH_API"
    /\ last.got = "page"
    /\ last.listed # <<>>
    /\ last.jobs = <<>>
    /\ last.before = maxJobs
    /\ jobsScraped = maxJobs

----------------------------------------------------------------------------
(* The pages of the API pipeline *)

\* uniqueKey: `search-page-${page}`
ApiPageKey(page) == <<"search-page-", ToString(page)>>

\* The requests for an API page that wait, are being handled or have been
\* handled
ApiPageCopies(page) ==
    Cardinality({e \in queue : e.req.uniqueKey = ApiPageKey(page)})
    + Cardinality({h \in running : h.req.uniqueKey = ApiPageKey(page)})
    + (IF ApiPageKey(page) \in handled THEN 1 ELSE 0)

\* The requests a step adds to the queue, a reclaimed request not being one
NewEntries == {e \in queue' \ queue : e.retryCount = 0}

\* A new SEARCH_API request for `page` comes from crawler.run if page is 1,
\* and else from the SEARCH_API handler of the page before, its response known
\* to report at least `page` pages; its key has not been seen before
ApiPageInSequence(e) ==
    /\ e.req.uniqueKey = ApiPageKey(e.req.page)
    /\ e.req.uniqueKey \notin seenKeys
    /\ IF e.req.page = 1
       THEN SeedsQueue
       ELSE /\ Stepped
            /\ last'.req.label = "SEARCH_API"
            /\ last'.req.page = e.req.page - 1
            /\ last'.ev \in {"page", "nextPage"}
            /\ last'.reportedPages >= e.req.page

\* C22: in the API pipeline a page is handled at most once in a run (at any
\* time at most one request for it waits, is being handled or has been
\* handled), and the pages are reached in sequence: the request for page N+1
\* is added by the handler of page N after it has had its response, and a
\* request whose page key the queue has seen is not added again
C22_ApiPagesOnceInSequence ==
    /\ [](\A page \in 1..(MaxPages + 1) : ApiPageCopies(page) <= 1)
    /\ [][\A e \in NewEntries : e.req.label = "SEARCH_API" => ApiPageInSequence(e)]_vars

\* Pages 1 and 2 of the API have been handled
C22_Witness ==
    /\ ApiPageKey(1) \in handled
    /\ ApiPageKey(2) \in handled
    /\ ApiPageCopies(2) = 1

----------------------------------------------------------------------------
(* After the cap is reached *)

CapReached == maxJobs > 0 /\ jobsScraped >= maxJobs

\* The step is the beginning of a search handler invocation: the crawler has
\* taken its request from the queue and called the handler
SearchHandlerBegins ==
    /\ Stepped
    /\ last'.req.label \in {"SEARCH_API", "SEARCH"}
    /\ last'.ev \notin {"retry", "failed"}
    /\ \E e \in queue \ queue' : e.req = last'.req

\* The step is a JOB_DETAIL handler invocation
DetailHandlerRuns ==
    /\ Stepped
    /\ last'.req.label = "JOB_DETAIL"
    /\ last'.ev \notin {"retry", "failed"}

\* C23: once jobsScraped has reached maxJobs (maxJobs above 0), a SEARCH_API
\* or SEARCH handler invocation that begins saves nothing, adds no request,
\* leaves jobsScraped as it is and ends at once; a JOB_DETAIL request that
\* waits in the queue is still handled and its record saved
C23_CapStopsNewSearchWork ==
    [][CapReached =>
        /\ SearchHandlerBegins =>
              /\ dataset' = dataset
              /\ queue' \subseteq queue
              /\ seenKeys' = seenKeys
              /\ jobsScraped' = jobsScraped
              /\ produced' = produced
              /\ running' = running
              /\ last'.req.uniqueKey \in handled'
        /\ DetailHandlerRuns =>
              /\ dataset' = dataset (+) SeqToBag(last'.pushed)
              /\ (last'.got = "detail" \/ last'.req.jobBasic # <<>>) =>
                    Len(last'.pushed) = 1
              /\ jobsScraped' = jobsScraped]_vars

\* The cap reached, a search handler has begun and returned at once while a
\* JOB_DETAIL request added before still waits
C23_Witness ==
    /\ CapReached
    /\ last.ev = "capReached"
    /\ last.before = maxJobs
    /\ \E e \in queue : e.req.label = "JOB_DETAIL" /\ e.req.jobBasic # <<>>

\* The cap reached, a JOB_DETAIL request added by a search handler has been
\* handled and its Full record saved
DetailSavedAfterCap ==
    /\ CapReached
    /\ last.req.label = "JOB_DETAIL"
    /\ last.req.jobBasic # <<>>
    /\ last.got = "detail"
    /\ last.before = maxJobs
    /\ Len(last.pushed) = 1

----------------------------------------------------------------------------
(* The module-level state of routes.ts during a run *)

Configured == phase \in {"configured", "crawling", "done"}

\* C24: during a run jobsScraped never decreases and is the number of Basic
\* records the SEARCH_API and SEARCH handlers have built so far; maxJobs and
\* scrapeJobDetails keep the values initRouter gave them, no step of a handler
\* writing them
C24_CounterCountsProduced ==
    /\ [](jobsScraped = BagCardinality(produced))
    /\ [](Configured => /\ maxJobs = initRouterMaxJobs(input)
                        /\ scrapeJobDetails = input.scrapeJobDetails)
    /\ [][/\ jobsScraped' >= jobsScraped
          /\ BagCardinality(produced') >= BagCardinality(produced)
          /\ Configured => /\ maxJobs' = maxJobs
                           /\ scrapeJobDetails' = scrapeJobDetails
          /\ Stepped /\ last'.req.label = "JOB_DETAIL" =>
                jobsScraped' = jobsScraped /\ produced' = produced]_vars

\* The counter has advanced to two under the default cap, the first API page
\* is handled and a JOB_DETAIL handler has just run
C24_Witness ==
    /\ jobsScraped >= 2
    /\ jobsScraped = BagCardinality(produced)
    /\ ApiPageKey(1) \in handled
    /\ last.req.label = "JOB_DETAIL"
    /\ last.got = "detail"
    /\ maxJobs = DEFAULT_MAX_JOBS

----------------------------------------------------------------------------
(* The end of the crawl *)

\* The crawler takes a waiting request while it has one and a free slot, a
\* pending fetch or await settles, and the main script goes on after each of
\* its awaits: a step of the program is taken while one is possible
Fairness == WF_vars(Next)

\* The run under fair scheduling
FairSpec == Spec /\ Fairness

\* crawler.run has been called, no request waits and no handler is in flight
Drained == phase \in {"crawling", "done"} /\ queue = {} /\ running = {}

\* C25: with the page counts the API reports bounded (by MaxPages + 1) and the
\* result pages with an enabled next control bounded (by MaxPages), under fair
\* scheduling every run reaches a state where the request queue is empty and
\* no handler is running, whatever maxJobs and scrapeJobDetails are
C25_CrawlDrains == <>Drained

\* The crawl of a search that went over several pages and queued detail
\* requests has drained
C25_Witness ==
    /\ Drained
    /\ scrapeJobDetails
    /\ ApiPageKey(2) \in handled
    /\ \E r \in BagToSet(dataset) : ~IsBasic(r)
    /\ errors > 0

----------------------------------------------------------------------------
(* buildSearchApiUrl *)

\* POSTED_DATE_MAP[params.postedDate] || 0
PostedDateDays(postedDate) ==
    CASE postedDate = <<"ONE">> -> 1
      [] postedDate = <<"THREE">> -> 3
      [] postedDate = <<"SEVEN">> -> 7
      [] postedDate = <<"THIRTY">> -> 30
      [] OTHER -> 0

\* WORKPLACE_TYPE_MAP[t]; <<>> is a type the map does not hold
WorkplaceTypeCode(t) ==
    CASE t = "Remote" -> <<"REMOTE">>
      [] t = "On-Site" -> <<"ON_SITE">>
      [] t = "Hybrid" -> <<"HYBRID">>
      [] OTHER -> <<>>

\* params.workplaceTypes.map(t => WORKPLACE_TYPE_MAP[t]).filter(Boolean)
RECURSIVE MappedTypes(_)
MappedTypes(workplaceTypes) ==
    IF workplaceTypes = <<>> THEN <<>>
    ELSE WorkplaceTypeCode(Head(workplaceTypes)) \o MappedTypes(Tail(workplaceTypes))

\* values.join(','), the comma as URLSearchParams.toString() writes it
RECURSIVE JoinComma(_)
JoinComma(values) ==
    IF Len(values) <= 1 THEN values
    ELSE <<Head(values), "%2C">> \o JoinComma(Tail(values))

\* The SearchParams values: each filter at its default and away from it, a
\* posted-date key and a workplace type the maps do not hold
SearchParamsValues ==
    {[page |-> p,
      location |-> l,
      easyApply |-> a,
      query |-> q,
      radius |-> r,
      employmentTypes |-> e,
      postedDate |-> d,
      workplaceTypes |-> w,
      pageSize |-> PAGE_SIZE] :
        q \in {<<>>, <<"engineer">>},
        l \in {<<>>, <<"Austin">>},
        r \in {0, 30},
        e \in {<<>>, <<"FULLTIME">>, <<"FULLTIME", "CONTRACTS">>},
        d \in {<<>>, <<"ANY">>, <<"SEVEN">>, <<"LATEST">>},
        w \in {<<>>, <<"Remote">>, <<"On-Site", "Hybrid">>, <<"Anywhere">>},
        a \in BOOLEAN,
        p \in 1..MaxPages}

QueryParam(params) ==
    IF Truthy(params.query) THEN <<"q=">> \o params.query ELSE <<>>

LocationParam(params) ==
    IF Truthy(params.location)
    THEN <<"location=">> \o params.location
         \o <<"latitude=", "longitude=", "countryCode2=", "US">>
    ELSE <<>>

\* Faulty variant of RadiusParam: the radius is written whatever its value
RadiusParamAlways(params) == <<"radius=", ToString(params.radius)>>

RadiusParam(params) ==
    IF params.radius > 0 THEN <<"radius=", ToString(params.radius)>> ELSE <<>>

EmploymentTypeParam(params) ==
    IF Len(params.employmentTypes) > 0
    THEN <<"employmentType=">> \o JoinComma(params.employmentTypes)
    ELSE <<>>

PostedDateParam(params) ==
    IF Truthy(params.postedDate) /\ params.postedDate # <<"ANY">>
       /\ PostedDateDays(params.postedDate) > 0
    THEN <<"postedDate=", ToString(PostedDateDays(params.postedDate))>>
    ELSE <<>>

WorkplaceTypesParam(params) ==
    IF Len(params.workplaceTypes) > 0 /\ Len(MappedTypes(params.workplaceTypes)) > 0
    THEN <<"workplaceTypes=">> \o JoinComma(MappedTypes(params.workplaceTypes))
    ELSE <<>>

EasyApplyParam(params) ==
    IF params.easyApply THEN <<"easyApply=", "true">> ELSE <<>>

\* The query string, one token per key and per value
buildSearchApiUrl(params) ==
    QueryParam(params) \o LocationParam(params) \o RadiusParam(params)
    \o EmploymentTypeParam(params) \o PostedDateParam(params)
    \o WorkplaceTypesParam(params) \o EasyApplyParam(params)
    \o <<"page=", ToString(params.page), "pageSize=", ToString(params.pageSize),
         "filters.isRemote=", "true", "language=", "en">>

BuildSearchApiUrl == Applied("buildSearchApiUrl", buildSearchApiUrl(call.arg))

HasKey(queryString, key) == \E i \in 1..Len(queryString) : queryString[i] = key

ValueOf(queryString, key) == queryString[IndexOfToken(queryString, key, 1) + 1]

\* C16: buildSearchApiUrl writes a filter key only when the filter's input is
\* away from its default (query and location non-empty, radius above 0,
\* employment types and workplace types non-empty, postedDate other than ANY,
\* easyApply true), and it always writes page, pageSize, language and the
\* fixed remote flag, with the values of the parameters
C16_FilterKeysOnlyWhenSet ==
    Called("buildSearchApiUrl") =>
        LET params == call.arg
            qs == call.result
        IN /\ HasKey(qs, "q=") => params.query # <<>>
           /\ \A k \in {"location=", "latitude=", "longitude=", "countryCode2="} :
                 HasKey(qs, k) => params.location # <<>>
           /\ HasKey(qs, "radius=") => params.radius > 0
           /\ HasKey(qs, "employmentType=") => params.employmentTypes # <<>>
           /\ HasKey(qs, "postedDate=") => params.postedDate \notin {<<>>, <<"ANY">>}
           /\ HasKey(qs, "workplaceTypes=") => params.workplaceTypes # <<>>
           /\ HasKey(qs, "easyApply=") => params.easyApply
           /\ \A k \in {"page=", "pageSize=", "filters.isRemote=", "language="} :
                 HasKey(qs, k)
           /\ ValueOf(qs, "page=") = ToString(params.page)
           /\ ValueOf(qs, "pageSize=") = ToString(params.pageSize)
           /\ ValueOf(qs, "filters.isRemote=") = "true"
           /\ ValueOf(qs, "language=") = "en"

\* A call with radius 0 and no query, location, employment type or easyApply,
\* and with a posted date and two workplace types
C16_Witness ==
    /\ Called("buildSearchApiUrl")
    /\ call.arg.radius = 0
    /\ call.arg.query = <<>>
    /\ call.arg.workplaceTypes = <<"On-Site", "Hybrid">>
    /\ call.arg.postedDate = <<"SEVEN">>
    /\ call.result = <<"postedDate=", "7", "workplaceTypes=", "ON_SITE", "%2C", "HYBRID",
                       "page=", "1", "pageSize=", "100",
                       "filters.isRemote=", "true", "language=", "en">>

----------------------------------------------------------------------------
(* extractJobDetails: the basic records and the detail documents *)

\* A number held by a record field; Undefined when the field is absent
Num(n) == <<ToString(n)>>

\* a || b for number operands: 0 and undefined are falsy
NumOr(a, b) == IF a # Undefined /\ a # Num(0) THEN a ELSE b

\* Intl.NumberFormat('en-US', { style: 'currency', currency,
\* maximumFractionDigits: 0 }).format(value)
FormatCurrency(currency, value) ==
    <<IF currency = <<"USD">> THEN "$" ELSE "€",
      IF value = Num(80000) THEN "80,000" ELSE value[1]>>

\* formatSalary(estimate); estimate is <<>> when the job has none
formatSalary(estimate) ==
    IF estimate = <<>> THEN Undefined
    ELSE IF NumOr(estimate[1].minValue, Undefined) = Undefined
            /\ NumOr(estimate[1].maxValue, Undefined) = Undefined
    THEN Undefined
    ELSE (IF NumOr(estimate[1].minValue, Undefined) # Undefined
          THEN FormatCurrency(Or(estimate[1].currency, <<"USD">>), estimate[1].minValue)
          ELSE <<>>)
         \o (IF NumOr(estimate[1].minValue, Undefined) # Undefined
                /\ NumOr(estimate[1].maxValue, Undefined) # Undefined
             THEN <<"-">> ELSE <<>>)
         \o (IF NumOr(estimate[1].maxValue, Undefined) # Undefined
             THEN FormatCurrency(Or(estimate[1].currency, <<"USD">>), estimate[1].maxValue)
             ELSE <<>>)
         \o (IF Truthy(estimate[1].unitText)
             THEN <<"/" \o estimate[1].unitText[1]>> ELSE <<>>)

\* job.salaryEstimate?.field
EstimateField(estimate, field) ==
    IF estimate = <<>> THEN Undefined ELSE estimate[1][field]

\* job.salaryEstimate of the search API
SalaryEstimates ==
    {<<>>}
    \cup {<<[currency |-> c, minValue |-> lo, maxValue |-> hi, unitText |-> u]>> :
            lo \in {Undefined, Num(50), Num(80000)},
            hi \in {Undefined, Num(80)},
            c \in {Undefined, <<"USD">>, <<"EUR">>},
            u \in {Undefined, <<"hour">>}}

\* job.salary of the search API
JobSalaries == {Undefined, <<"$", "50", "/hour">>, <<"Competitive">>}

\* The record of a job, its salary fields as parseJobFromApi fills them from
\* job.salary and job.salaryEstimate
BasicOf(fields, jobSalary, estimate) ==
    [url |-> fields.url,
     id |-> fields.id,
     location |-> fields.location,
     easyApply |-> fields.easyApply,
     postedDate |-> fields.postedDate,
     postedDateTimestamp |-> fields.postedDateTimestamp,
     title |-> fields.title,
     company |-> fields.company,
     companyId |-> fields.companyId,
     salary |-> Or(jobSalary, formatSalary(estimate)),
     salaryMin |-> EstimateField(estimate, "minValue"),
     salaryMax |-> EstimateField(estimate, "maxValue"),
     salaryCurrency |-> EstimateField(estimate, "currency"),
     salaryPeriod |-> EstimateField(estimate, "unitText"),
     jobType |-> Undefined,
     employmentType |-> fields.employmentType,
     workplaceType |-> fields.workplaceType,
     summary |-> fields.summary]

\* A job of which the listing tells the id and the URL only
BareFields ==
    [url |-> <<DICE_BASE_URL, "/job-detail/", "a1">>,
     id |-> <<"a1">>,
     location |-> <<>>,
     easyApply |-> Undefined,
     postedDate |-> <<>>,
     postedDateTimestamp |-> Undefined,
     title |-> <<>>,
     company |-> <<>>,
     companyId |-> Undefined,
     employmentType |-> Undefined,
     workplaceType |-> Undefined,
     summary |-> <<>>]

\* A job of which the listing tells every field
RichFields ==
    [url |-> <<DICE_BASE_URL, "/job-detail/", "a1">>,
     id |-> <<"a1">>,
     location |-> <<"Austin">>,
     easyApply |-> <<"false">>,
     postedDate |-> <<"Yesterday">>,
     postedDateTimestamp |-> Num(NowDay - 1),
     title |-> <<"Engineer">>,
     company |-> <<"Acme">>,
     companyId |-> <<"c7">>,
     employmentType |-> <<"FULLTIME">>,
     workplaceType |-> <<"Remote">>,
     summary |-> <<"Builds">>]

\* The records that agree with `base` but for at most one field, taken from `other`
OneFieldFrom(base, other) ==
    {base} \cup {[base EXCEPT ![f] = other[f]] : f \in DOMAIN base}

\* userData.jobBasic of a JOB_DETAIL request: <<>> for a custom start URL
JobBasics ==
    {<<>>}
    \cup {<<BasicOf(fields, Undefined, <<>>)>> :
            fields \in OneFieldFrom(BareFields, RichFields)
                       \cup OneFieldFrom(RichFields, BareFields)}
    \cup {<<BasicOf(fields, jobSalary, estimate)>> :
            fields \in {BareFields, RichFields},
            jobSalary \in JobSalaries, estimate \in SalaryEstimates}

DESCRIPTION_HTML_CAP == 50000

\* What the selectors of extractJobDetails find in a document without any of
\* the elements: text() is '', attr() is undefined, html() is null
BlankPage ==
    [description |-> [text |-> <<>>, htmlLength |-> 0],
     location |-> <<>>,
     postedDate |-> <<>>,
     salary |-> <<>>,
     jobType |-> <<>>,
     workplaceType |-> <<>>,
     jobTitle |-> <<>>,
     h1 |-> <<>>,
     companyName |-> <<>>,
     locationItem |-> <<>>,
     skills |-> <<>>,
     experienceLevel |-> <<>>,
     educationLevel |-> <<>>,
     benefits |-> <<>>,
     companyDescription |-> <<>>,
     companyLogo |-> Undefined,
     easyApplyBadge |-> FALSE,
     applyHref |-> Undefined]

\* A document with every element
FullPage ==
    [description |-> [text |-> <<"Senior", " ", "React", " ", "Python", " ",
                                 "bachelor", " ", "Python">>,
                      htmlLength |-> 120],
     location |-> <<"Dallas">>,
     postedDate |-> <<"Posted", " ", "Today">>,
     salary |-> <<"$", "80", "K", "-", "$", "120", "K", "/year">>,
     jobType |-> <<"Contract">>,
     workplaceType |-> <<"Hybrid">>,
     jobTitle |-> <<" ", "Staff Engineer", " ">>,
     h1 |-> <<"Engineer II">>,
     companyName |-> <<"Acme", "&", "amp;", "Co">>,
     locationItem |-> <<"Location", " ", "Plano">>,
     skills |-> <<<<"AWS">>, <<" ">>, <<"AWS">>, <<"React">>>>,
     experienceLevel |-> <<"Lead">>,
     educationLevel |-> <<"Masters">>,
     benefits |-> <<<<"Dental">>, <<" ">>>>,
     companyDescription |-> <<"Makes", " ", "anvils">>,
     companyLogo |-> <<"/logo.png">>,
     easyApplyBadge |-> TRUE,
     applyHref |-> <<"/apply">>]

\* The documents of a detail page: with no element, with every element, with
\* one element more or less, with salary texts of several shapes, with elements
\* that hold white space only, and with descriptions around the HTML cap
DetailPages ==
    OneFieldFrom(BlankPage, FullPage) \cup OneFieldFrom(FullPage, BlankPage)
    \cup {[BlankPage EXCEPT !.salary = t] :
            t \in {<<"$", "50", "/hour">>, <<"Competitive">>, <<"1500", "K">>}}
    \cup {[p EXCEPT !.jobTitle = <<" ">>, !.location = <<" ">>] :
            p \in {BlankPage, FullPage}}
    \cup {[p EXCEPT !.description = [text |-> <<"manager", " ", "diploma">>,
                                     htmlLength |-> n]] :
            p \in {BlankPage, FullPage},
            n \in {DESCRIPTION_HTML_CAP - 1, DESCRIPTION_HTML_CAP,
                   DESCRIPTION_HTML_CAP + 1}}

\* jobBasic?.field
BasicField(jobBasic, field) ==
    IF jobBasic = <<>> THEN Undefined ELSE jobBasic[1][field]

\* text.replace(word, ''): the first occurrence only
RemoveFirst(text, word) ==
    LET i == IndexOfToken(text, word, 1)
    IN IF i = 0 THEN text
       ELSE SubSeq(text, 1, i - 1) \o SubSeq(text, i + 1, Len(text))

\* text.match(pattern): the leftmost word of the text the pattern accepts,
\* Undefined when there is none
MatchOf(text, words) ==
    LET at == {i \in 1..Len(text) : text[i] \in words}
    IN IF at = {} THEN Undefined ELSE <<text[Least(at)]>>

\* The loop over the patterns: the match of the first pattern that has one
RECURSIVE FirstMatch(_, _)
FirstMatch(text, patterns) ==
    IF patterns = <<>> THEN Undefined
    ELSE IF MatchOf(text, Head(patterns)) # Undefined
    THEN MatchOf(text, Head(patterns))
    ELSE FirstMatch(text, Tail(patterns))

\* Words the three patterns of extractExperienceLevel accept
ExperiencePatterns ==
    <<{"5+ years experience"}, {"Senior", "junior", "Lead"}, {"manager", "intern"}>>

extractExperienceLevel(text) == FirstMatch(text, ExperiencePatterns)

\* Words the three patterns of extractEducationLevel accept
EducationPatterns == <<{"bachelor", "Masters"}, {"diploma"}, {"MBA in"}>>

extractEducationLevel(text) == FirstMatch(text, EducationPatterns)

\* if (!skills.includes(skill)) skills.push(skill), for each item in order
RECURSIVE PushNew(_, _)
PushNew(skills, items) ==
    IF items = <<>> THEN skills
    ELSE PushNew(IF \E i \in 1..Len(skills) : skills[i] = Head(items)
                 THEN skills ELSE Append(skills, Head(items)),
                 Tail(items))

\* text.match(pattern) with the g flag: every word the pattern accepts, in order
RECURSIVE MatchAll(_, _)
MatchAll(text, words) ==
    IF text = <<>> THEN <<>>
    ELSE (IF Head(text) \in words THEN <<<<Head(text)>>>> ELSE <<>>)
         \o MatchAll(Tail(text), words)

\* Words of three of the six patterns of extractSkills
SkillPatterns == <<{"Python", "Java"}, {"React", "Django"}, {"AWS", "Docker"}>>

\* extractSkills: Array.from of the Set filled pattern by pattern
RECURSIVE extractSkillsFrom(_, _, _)
extractSkillsFrom(text, patterns, found) ==
    IF patterns = <<>> THEN found
    ELSE extractSkillsFrom(text, Tail(patterns),
                           PushNew(found, MatchAll(text, Head(patterns))))

extractSkills(text) == extractSkillsFrom(text, SkillPatterns, <<>>)

\* cleanText($(el).text()) of each element, the empty ones left out
RECURSIVE CleanedItems(_)
CleanedItems(elements) ==
    IF elements = <<>> THEN <<>>
    ELSE (IF cleanText(Head(elements)) # <<>>
          THEN <<cleanText(Head(elements))>> ELSE <<>>)
         \o CleanedItems(Tail(elements))

----------------------------------------------------------------------------
(* extractJobDetails: the Full record *)

title(page, jobBasic) ==
    Or(cleanText(page.jobTitle),
       Or(cleanText(page.h1), Or(BasicField(jobBasic, "title"), <<"Unknown Title">>)))

company(page, jobBasic) ==
    Or(cleanText(page.companyName),
       Or(BasicField(jobBasic, "company"), <<"Unknown Company">>))

location(page, jobBasic) ==
    Or(cleanText(page.location),
       Or(cleanText(RemoveFirst(page.locationItem, "Location")),
          Or(BasicField(jobBasic, "location"), <<"Unknown Location">>)))

salary(page, jobBasic) == Or(cleanText(page.salary), BasicField(jobBasic, "salary"))

\* parseSalaryFromText(salary || '')
salaryData(page, jobBasic) == parseSalaryFromText(Or(salary(page, jobBasic), <<>>))

jobType(page, jobBasic) == Or(cleanText(page.jobType), BasicField(jobBasic, "jobType"))

workplaceType(page, jobBasic) ==
    Or(cleanText(page.workplaceType), BasicField(jobBasic, "workplaceType"))

postedDate(page, jobBasic) ==
    Or(cleanText(Trim(RemoveFirst(page.postedDate, "Posted"))),
       Or(BasicField(jobBasic, "postedDate"), <<"Unknown">>))

description(page) == cleanText(page.description.text)

\* Faulty variant of descriptionHtml: an HTML of exactly the cap is kept
descriptionHtmlInclusive(page) ==
    IF page.description.htmlLength <= DESCRIPTION_HTML_CAP
    THEN (IF page.description.htmlLength = 0 THEN <<>>
          ELSE <<"html:", ToString(page.description.htmlLength)>>)
    ELSE Undefined

\* descriptionHtml.length < 50000 ? descriptionHtml : undefined; the HTML is
\* told by its length, '' when the element is missing
descriptionHtml(page) ==
    IF page.description.htmlLength < DESCRIPTION_HTML_CAP
    THEN (IF page.description.htmlLength = 0 THEN <<>>
          ELSE <<"html:", ToString(page.description.htmlLength)>>)
    ELSE Undefined

\* The skills of the skill elements, then those of the description
skills(page) == PushNew(PushNew(<<>>, CleanedItems(page.skills)),
                        extractSkills(description(page)))

experienceLevel(page) ==
    Or(cleanText(page.experienceLevel), extractExperienceLevel(description(page)))

educationLevel(page) ==
    Or(cleanText(page.educationLevel), extractEducationLevel(description(page)))

benefits(page) == CleanedItems(page.benefits)

companyDescription(page) == cleanText(page.companyDescription)

\* $(SELECTORS.EASY_APPLY_BADGE).length > 0 || jobBasic?.easyApply
easyApply(page, jobBasic) ==
    IF page.easyApplyBadge THEN <<"true">> ELSE BasicField(jobBasic, "easyApply")

\* salaryData?.min || jobBasic?.salaryMin (and max)
SalaryNumber(page, jobBasic, bound, field) ==
    NumOr(IF salaryData(page, jobBasic) = <<>> THEN Undefined
          ELSE Num(salaryData(page, jobBasic)[1][bound]),
          BasicField(jobBasic, field))

\* salaryData?.currency || jobBasic?.salaryCurrency (and period)
SalaryString(page, jobBasic, part, field) ==
    Or(IF salaryData(page, jobBasic) = <<>> THEN Undefined
       ELSE <<salaryData(page, jobBasic)[1][part]>>,
       BasicField(jobBasic, field))

\* A string array as a record field holds it: the strings and a separator
RECURSIVE ListValue(_)
ListValue(items) ==
    IF items = <<>> THEN <<>>
    ELSE Head(items) \o <<";">> \o ListValue(Tail(items))

\* The jobDetail object
jobDetail(page, jobBasic, url) ==
    [url |-> url,
     id |-> Or(BasicField(jobBasic, "id"),
               Or(extractJobIdFromUrl(url), <<"job-", DateNow>>)),
     scrapedAt |-> NowIso,
     description |-> description(page),
     location |-> location(page, jobBasic),
     easyApply |-> easyApply(page, jobBasic),
     postedDate |-> postedDate(page, jobBasic),
     postedDateTimestamp |-> BasicField(jobBasic, "postedDateTimestamp"),
     title |-> title(page, jobBasic),
     company |-> company(page, jobBasic),
     companyId |-> BasicField(jobBasic, "companyId"),
     salary |-> salary(page, jobBasic),
     salaryMin |-> SalaryNumber(page, jobBasic, "min", "salaryMin"),
     salaryMax |-> SalaryNumber(page, jobBasic, "max", "salaryMax"),
     salaryCurrency |-> Or(SalaryString(page, jobBasic, "currency", "salaryCurrency"),
                           <<"USD">>),
     salaryPeriod |-> SalaryString(page, jobBasic, "period", "salaryPeriod"),
     jobType |-> jobType(page, jobBasic),
     employmentType |-> BasicField(jobBasic, "employmentType"),
     workplaceType |-> workplaceType(page, jobBasic),
     summary |-> BasicField(jobBasic, "summary"),
     skills |-> IF Len(skills(page)) > 0 THEN ListValue(skills(page)) ELSE Undefined,
     experienceLevel |-> Or(experienceLevel(page), Undefined),
     educationLevel |-> Or(educationLevel(page), Undefined),
     benefits |-> IF Len(benefits(page)) > 0 THEN ListValue(benefits(page)) ELSE Undefined,
     companyDescription |-> Or(companyDescription(page), Undefined),
     companyLogo |-> Or(page.companyLogo, Undefined),
     descriptionHtml |-> descriptionHtml(page),
     applicationUrl |-> Or(page.applyHref, Undefined)]

\* The URL of the JOB_DETAIL request: the job's URL, or a custom start URL
DetailUrl(jobBasic) ==
    IF jobBasic = <<>> THEN <<DICE_BASE_URL, "/job-detail/", "d4">>
    ELSE jobBasic[1].url

ExtractJobDetails ==
    Applied("extractJobDetails",
            jobDetail(call.arg.page, call.arg.jobBasic, DetailUrl(call.arg.jobBasic)))

----------------------------------------------------------------------------
(* The functions of utils.ts and extractJobDetails, applied to their inputs *)

\* The calls to settle: each function with each of its inputs
PendingCall ==
    \/ \E text \in Texts : call = Call("cleanText", text)
    \/ \E dateString \in DateStrings : call = Call("formatPostedDate", dateString)
    \/ \E dateString \in DateStrings \cup {Undefined} :
          call = Call("parseJobFromApi", dateString)
    \/ \E text \in SalaryTexts : call = Call("parseSalaryFromText", text)
    \/ \E params \in SearchParamsValues : call = Call("buildSearchApiUrl", params)
    \/ \E doc \in DetailPages, basic \in JobBasics :
          call = Call("extractJobDetails", [jobBasic |-> basic, page |-> doc])

\* The functions read no state of the run, which stays as the main script
\* finds it
InitUtils ==
    /\ input \in {i \in Inputs : i.maxJobs = 0 /\ i.scrapeJobDetails /\ i.startUrls = <<>>}
    /\ phase = "main"
    /\ jobsScraped = 0
    /\ maxJobs = DEFAULT_MAX_JOBS
    /\ scrapeJobDetails = TRUE
    /\ queue = {}
    /\ seenKeys = {}
    /\ running = {}
    /\ handled = {}
    /\ errors = 0
    /\ dataset = EmptyBag
    /\ produced = EmptyBag
    /\ runStatistics = <<>>
    /\ last = NoStep
    /\ PendingCall
    /\ NoLimiter

NextUtils ==
    \/ CleanText
    \/ FormatPostedDate
    \/ ParseJobPostedDate
    \/ ParseSalaryFromText
    \/ BuildSearchApiUrl
    \/ ExtractJobDetails

SpecUtils == InitUtils /\ [][NextUtils]_vars

----------------------------------------------------------------------------
(* Properties of extractJobDetails *)

Present(value) == value # Undefined /\ value # <<>>

\* parseSalaryFromText of the salary text of the page, <<>> when the page has
\* no salary text or one without a number
PageSalaryData(page) == parseSalaryFromText(cleanText(page.salary))

\* What the detail page gives for each field of the Full record, Undefined or
\* '' when it gives nothing
PageValues(page) ==
    [location |-> Or(cleanText(page.location),
                     cleanText(RemoveFirst(page.locationItem, "Location"))),
     easyApply |-> IF page.easyApplyBadge THEN <<"true">> ELSE Undefined,
     postedDate |-> cleanText(Trim(RemoveFirst(page.postedDate, "Posted"))),
     postedDateTimestamp |-> Undefined,
     title |-> Or(cleanText(page.jobTitle), cleanText(page.h1)),
     company |-> cleanText(page.companyName),
     companyId |-> Undefined,
     salary |-> cleanText(page.salary),
     salaryMin |-> IF PageSalaryData(page) = <<>> THEN Undefined
                   ELSE Num(PageSalaryData(page)[1].min),
     salaryMax |-> IF PageSalaryData(page) = <<>> THEN Undefined
                   ELSE Num(PageSalaryData(page)[1].max),
     salaryCurrency |-> IF PageSalaryData(page) = <<>> THEN Undefined
                        ELSE <<PageSalaryData(page)[1].currency>>,
     salaryPeriod |-> IF PageSalaryData(page) = <<>> THEN Undefined
                      ELSE <<PageSalaryData(page)[1].period>>,
     jobType |-> cleanText(page.jobType),
     employmentType |-> Undefined,
     workplaceType |-> cleanText(page.workplaceType),
     summary |-> Undefined]

RequiredTexts == {"title", "company", "location", "postedDate"}

SalaryParts == {"salaryMin", "salaryMax", "salaryCurrency", "salaryPeriod"}

\* The fields a Full record shares with its Basic record, id and url apart
MergedFields == DOMAIN PageValues(BlankPage)

\* C12: with a Basic record B carried to the detail page, each shared field of
\* the Full record is the page's value when the page gives one, otherwise B's
\* value when B has one, and otherwise (for an optional field) absent
C12_MergeLaw ==
    (Called("extractJobDetails") /\ call.arg.jobBasic # <<>>) =>
        LET D == PageValues(call.arg.page)
            B == call.arg.jobBasic[1]
            F == call.result
        IN \A f \in MergedFields :
              /\ Present(D[f]) => F[f] = D[f]
              /\ (~Present(D[f]) /\ Present(B[f])) => F[f] = B[f]
              /\ (~Present(D[f]) /\ ~Present(B[f]) /\ f \notin RequiredTexts) =>
                    ~Present(F[f])

Placeholder(f) ==
    CASE f = "title" -> <<"Unknown Title">>
      [] f = "company" -> <<"Unknown Company">>
      [] f = "location" -> <<"Unknown Location">>
      [] f = "postedDate" -> <<"Unknown">>

\* The fields of the Full record only the detail page can give
PageOnlyFields ==
    {"description", "descriptionHtml", "skills", "experienceLevel", "educationLevel",
     "benefits", "companyDescription", "companyLogo", "applicationUrl"}

\* The detail page and the basic record give nothing from which field f could
\* be filled: no element, no basic value and, for the parts of a salary, no
\* salary text either
NothingSupplied(page, jobBasic, f) ==
    IF f \in PageOnlyFields
    THEN page = BlankPage
    ELSE /\ ~Present(PageValues(page)[f])
         /\ ~Present(BasicField(jobBasic, f))
         /\ f \in SalaryParts =>
               ~Present(cleanText(page.salary)) /\ ~Present(BasicField(jobBasic, "salary"))

\* C13: title, company, location and postedDate are the page's value (primary
\* selector, then secondary), else the basic record's, else their literal
\* placeholder; every other field is absent when neither the page nor the
\* basic record supplies it
C13_PlaceholdersOnlyForFour ==
    Called("extractJobDetails") =>
        LET page == call.arg.page
            jobBasic == call.arg.jobBasic
            F == call.result
        IN /\ \A f \in RequiredTexts :
                F[f] = Or(PageValues(page)[f], Or(BasicField(jobBasic, f), Placeholder(f)))
           /\ \A f \in (MergedFields \cup PageOnlyFields) \ RequiredTexts :
                NothingSupplied(page, jobBasic, f) => ~Present(F[f])

\* C14 as amended: descriptionHtml is kept exactly when the HTML is shorter
\* than 50,000 characters, an HTML of 50,000 characters or more is dropped, and
\* the cleaned description text is kept whatever the length
C14_HtmlKeptBelowCap ==
    Called("extractJobDetails") =>
        LET page == call.arg.page
            F == call.result
        IN /\ F.descriptionHtml # Undefined
                <=> page.description.htmlLength < DESCRIPTION_HTML_CAP
           /\ page.description.htmlLength \in 1..(DESCRIPTION_HTML_CAP - 1) =>
                F.descriptionHtml = <<"html:", ToString(page.description.htmlLength)>>
           /\ F.description = cleanText(page.description.text)

\* C14 as stated: descriptionHtml is kept exactly when the length of the HTML
\* does not exceed 50,000
C14_HtmlKeptUpToCap ==
    Called("extractJobDetails") =>
        (call.result.descriptionHtml # Undefined
            <=> call.arg.page.description.htmlLength <= DESCRIPTION_HTML_CAP)

\* An HTML of exactly 50,000 characters is dropped and its text is kept
C14_Witness ==
    /\ Called("extractJobDetails")
    /\ call.arg.page.description.htmlLength = DESCRIPTION_HTML_CAP
    /\ call.result.descriptionHtml = Undefined
    /\ call.result.description = <<"manager", " ", "diploma">>

----------------------------------------------------------------------------
(* RateLimiter *)

MaxTokens == 2          \* largest maxTokens a RateLimiter is built with
MaxRefillRate == 2      \* largest refillRate, in tokens per second
MaxSleeping == 2        \* acquire calls suspended at the same time
MaxWaits == 3           \* the clock runs for this many wait times

MS_PER_SECOND == 1000

\* One token, in the thousandths of a token the model counts in: a token is
\* refilled in MS_PER_SECOND / refillRate ms
OneToken == MS_PER_SECOND

\* new RateLimiter(maxTokens, refillRate) at time t
RateLimiter(maxTokens, refillRate, t) ==
    [tokens |-> maxTokens * OneToken, lastRefill |-> t,
     maxTokens |-> maxTokens, refillRate |-> refillRate]

\* const waitTime = (1 / this.refillRate) * 1000, in ms
waitTime(l) == MS_PER_SECOND \div l.refillRate

\* refill() at time t: tokensToAdd = elapsed * refillRate with elapsed in
\* seconds, which is (t - lastRefill) * refillRate thousandths of a token
refill(l, t) ==
    LET elapsed == t - l.lastRefill
        tokensToAdd == elapsed * l.refillRate
    IN [l EXCEPT !.tokens = Min(l.maxTokens * OneToken, l.tokens + tokensToAdd),
                 !.lastRefill = t]

\* this.tokens -= 1
TakeToken(l) == [l EXCEPT !.tokens = l.tokens - OneToken]

\* acquire() up to its return or to its await of sleep(waitTime)
AcquireStart ==
    LET l == refill(rateLimiter, now)
    IN /\ IF l.tokens < OneToken
          THEN /\ BagCardinality(sleeping) < MaxSleeping
               /\ rateLimiter' = l
               /\ sleeping' = sleeping (+) SetToBag({now + waitTime(l)})
          ELSE /\ rateLimiter' = TakeToken(l)
               /\ UNCHANGED sleeping
       /\ UNCHANGED <<now, Program, call>>

\* acquire() after sleep(waitTime): the timer due at `due` has fired
AcquireResume(due) ==
    /\ due \in BagToSet(sleeping)
    /\ due <= now
    /\ sleeping' = sleeping (-) SetToBag({due})
    /\ rateLimiter' = TakeToken(refill(rateLimiter, now))
    /\ UNCHANGED <<now, Program, call>>

\* Time passes: half a wait time or a whole one
TimePasses(ms) ==
    /\ ms > 0
    /\ now + ms <= MaxWaits * waitTime(rateLimiter)
    /\ now' = now + ms
    /\ UNCHANGED <<rateLimiter, sleeping, Program, call>>

Delays(l) == {waitTime(l) \div 2, waitTime(l)}

InitLimiter ==
    /\ input \in {i \in Inputs : i.maxJobs = 0 /\ i.scrapeJobDetails /\ i.startUrls = <<>>}
    /\ phase = "main"
    /\ jobsScraped = 0
    /\ maxJobs = DEFAULT_MAX_JOBS
    /\ scrapeJobDetails = TRUE
    /\ queue = {}
    /\ seenKeys = {}
    /\ running = {}
    /\ handled = {}
    /\ errors = 0
    /\ dataset = EmptyBag
    /\ produced = EmptyBag
    /\ runStatistics = <<>>
    /\ last = NoStep
    /\ call = NoCall
    /\ now = 0
    /\ sleeping = EmptyBag
    /\ \E maxTokens \in 1..MaxTokens, refillRate \in 1..MaxRefillRate :
          rateLimiter = RateLimiter(maxTokens, refillRate, now)

NextLimiter ==
    \/ AcquireStart
    \/ \E due \in BagToSet(sleeping) : AcquireResume(due)
    \/ \E ms \in Delays(rateLimiter) : TimePasses(ms)

\* A RateLimiter, calls of acquire that may overlap, and the clock
SpecLimiter == InitLimiter /\ [][NextLimiter]_vars

\* C26: for a RateLimiter built with maxTokens >= 1, after any calls of
\* acquire, calls that overlap while one waits for a refill included, the
\* token count is at least 0 and at most maxTokens
C26_TokensWithinRange ==
    rateLimiter.maxTokens >= 1 =>
        /\ 0 <= rateLimiter.tokens
        /\ rateLimiter.tokens <= rateLimiter.maxTokens * OneToken

====
